---- MODULE Spec2Model ----
(***************************************************************************)
(* A model of PakBeast's text comparison core:                             *)
(*   comparison/operations/parsing.py          (changed-line extractor,    *)
(*                                              parameter extraction)      *)
(*   comparison/operations/text_comparison.py  (file-pair comparator)      *)
(*   comparison/operations/utils.py            (text classifier)           *)
(*                                                                         *)
(* Python str and bytes values are sequences of integers (code points,     *)
(* byte values).  An Optional value is a sequence of length 0 (None) or 1. *)
(***************************************************************************)
EXTENDS Integers, Sequences, FiniteSets, Bags, TLC

\* ------------------------------------------------------------------------
\* Optional values and string helpers
\* ------------------------------------------------------------------------

None == <<>>

Some(x) == <<x>>

IsNone(o) == o = <<>>

Val(o) == o[1]

\* str.startswith
StartsWith(s, p) == Len(s) >= Len(p) /\ SubSeq(s, 1, Len(p)) = p

\* the text s[p..p+Len(t)-1] is t
HasAt(s, p, t) == p >= 1 /\ p + Len(t) - 1 <= Len(s) /\ SubSeq(s, p, p + Len(t) - 1) = t

IsDigit(c) == c \in 48..57

\* re \s and str.strip() on str: the Unicode white space
IsSpace(c) ==
    c \in {32, 9, 10, 11, 12, 13, 28, 29, 30, 31, 133, 160, 5760, 8232, 8233, 8239, 8287, 12288}
           \cup (8192..8202)

\* re \w on str, for the code points up to 255
IsWord(c) ==
    c \in (48..57) \cup (65..90) \cup (97..122) \cup {95, 170, 178, 179, 181, 185, 186, 188, 189, 190}
           \cup ((192..255) \ {215, 247})

\* the first index >= p whose character is not white space (Len(s) + 1: none)
SkipSpaces(s, p) ==
    CHOOSE i \in p..(Len(s) + 1) :
        /\ i = Len(s) + 1 \/ ~IsSpace(s[i])
        /\ \A j \in p..(i - 1) : IsSpace(s[j])

\* str.strip()
Strip(v) ==
    LET keep == {i \in DOMAIN v : ~IsSpace(v[i])}
    IN  IF keep = {} THEN <<>>
        ELSE SubSeq(v, CHOOSE i \in keep : \A j \in keep : i <= j,
                       CHOOSE i \in keep : \A j \in keep : j <= i)

\* if value.startswith('"') and value.endswith('"'): value = value[1:-1]
StripQuotes(v) ==
    IF Len(v) >= 1 /\ v[1] = 34 /\ v[Len(v)] = 34 THEN SubSeq(v, 2, Len(v) - 1) ELSE v

\* the characters str.splitlines breaks a line at
LineBreaks == {10, 13, 11, 12, 28, 29, 30, 133, 8232, 8233}

RECURSIVE SplitFrom(_, _)
\* the lines of s[start..], one line break at a time ("\r\n" is one break)
SplitFrom(s, start) ==
    LET breaks == {i \in start..Len(s) : s[i] \in LineBreaks}
        b      == CHOOSE i \in breaks : \A j \in breaks : i <= j
        next   == IF s[b] = 13 /\ b < Len(s) /\ s[b + 1] = 10 THEN b + 2 ELSE b + 1
    IN  IF start > Len(s) THEN <<>>
        ELSE IF breaks = {} THEN <<SubSeq(s, start, Len(s))>>
        ELSE <<SubSeq(s, start, b - 1)>> \o SplitFrom(s, next)

\* str.splitlines()
SplitLines(s) == SplitFrom(s, 1)

RECURSIVE JoinLines(_)
\* "\n".join(lines)
JoinLines(ls) ==
    IF ls = <<>> THEN <<>>
    ELSE IF Len(ls) = 1 THEN ls[1]
    ELSE ls[1] \o <<10>> \o JoinLines(Tail(ls))

\* ------------------------------------------------------------------------
\* utils.py: _is_text and _decode_text over byte sequences
\* ------------------------------------------------------------------------

IsCont(b) == b \in 128..191

\* bytes a UTF-8 sequence with lead byte b takes (0: b cannot start one)
Utf8Need(b) ==
    IF b < 128 THEN 1
    ELSE IF b \in 194..223 THEN 2
    ELSE IF b \in 224..239 THEN 3
    ELSE IF b \in 240..244 THEN 4
    ELSE 0

\* the values the second byte may take after lead byte b
Utf8Second(b) ==
    IF b = 224 THEN 160..191
    ELSE IF b = 237 THEN 128..159
    ELSE IF b = 240 THEN 144..191
    ELSE IF b = 244 THEN 128..143
    ELSE 128..191

\* how many of the bytes after the lead at i continue its sequence
Utf8Tail(s, i) ==
    LET need == Utf8Need(s[i])
        okAt(k) == /\ i + k <= Len(s)
                   /\ IF k = 1 THEN s[i + 1] \in Utf8Second(s[i]) ELSE IsCont(s[i + k])
        good == {m \in 0..(need - 1) : \A k \in 1..m : okAt(k)}
    IN  CHOOSE m \in good : \A o \in good : o <= m

\* the decoding unit at i: bytes consumed, code point, and whether it is an error
Utf8Unit(s, i) ==
    LET b    == s[i]
        need == Utf8Need(b)
        m    == Utf8Tail(s, i)
        c(k) == s[i + k] % 64
    IN  IF need = 0 THEN [len |-> 1, cp |-> 65533, err |-> TRUE]
        ELSE IF need = 1 THEN [len |-> 1, cp |-> b, err |-> FALSE]
        ELSE IF m < need - 1 THEN [len |-> 1 + m, cp |-> 65533, err |-> TRUE]
        ELSE IF need = 2 THEN [len |-> 2, cp |-> (b % 32) * 64 + c(1), err |-> FALSE]
        ELSE IF need = 3
             THEN [len |-> 3, cp |-> (b % 16) * 4096 + c(1) * 64 + c(2), err |-> FALSE]
             ELSE [len |-> 4, cp |-> (b % 8) * 262144 + c(1) * 4096 + c(2) * 64 + c(3),
                   err |-> FALSE]

RECURSIVE Utf8Units(_, _)
\* the decoding units of s[i..]
Utf8Units(s, i) ==
    IF i > Len(s) THEN <<>>
    ELSE LET u == Utf8Unit(s, i) IN <<u>> \o Utf8Units(s, i + u.len)

\* _is_text(data)
IsText(data) ==
    IF \E i \in DOMAIN data : data[i] = 0 THEN FALSE
    ELSE LET units == Utf8Units(data, 1) IN \A i \in DOMAIN units : ~units[i].err

\* _decode_text(data): data.decode("utf-8", errors="replace")
DecodeText(data) ==
    LET us == Utf8Units(data, 1) IN [i \in DOMAIN us |-> us[i].cp]

\* ------------------------------------------------------------------------
\* The hunk header pattern  @@ -(\d+)(?:,(\d+))? \+(\d+)(?:,(\d+))? @@
\* ------------------------------------------------------------------------

RECURSIVE DigitsEnd(_, _)
\* the index of the last character of the digit run that starts at p (p - 1: none)
DigitsEnd(s, p) ==
    IF p <= Len(s) /\ IsDigit(s[p]) THEN DigitsEnd(s, p + 1) ELSE p - 1

RECURSIVE IntOf(_)
\* int(digits)
IntOf(ds) ==
    IF ds = <<>> THEN 0
    ELSE 10 * IntOf(SubSeq(ds, 1, Len(ds) - 1)) + (ds[Len(ds)] - 48)

\* the position after an optional ",\d+" group that starts at q
AfterCount(s, q) ==
    IF q <= Len(s) /\ s[q] = 44 /\ DigitsEnd(s, q + 1) >= q + 1
    THEN DigitsEnd(s, q + 1) + 1
    ELSE q

\* the pattern matched with its first character at p
HeaderMatchAt(s, p) ==
    LET a  == p + 4
        ae == DigitsEnd(s, a)
        q  == AfterCount(s, ae + 1)
        c  == q + 2
        ce == DigitsEnd(s, c)
        r  == AfterCount(s, ce + 1)
    IN  IF /\ HasAt(s, p, <<64, 64, 32, 45>>)
           /\ ae >= a
           /\ HasAt(s, q, <<32, 43>>)
           /\ ce >= c
           /\ HasAt(s, r, <<32, 64, 64>>)
        THEN Some([old_start |-> IntOf(SubSeq(s, a, ae)),
                   new_start |-> IntOf(SubSeq(s, c, ce))])
        ELSE None

\* re.search: the leftmost match, None when there is none
HeaderSearch(s) ==
    LET hits == {p \in 1..Len(s) : ~IsNone(HeaderMatchAt(s, p))}
    IN  IF hits = {} THEN None
        ELSE HeaderMatchAt(s, CHOOSE p \in hits : \A o \in hits : p <= o)

\* ------------------------------------------------------------------------
\* _parse_params: the patterns param_re and prop_re, and the name -> value dict
\* ------------------------------------------------------------------------

\* \)\s*; (or \)\s*(?:;|\{) with enders {59, 123}) matches at t
CloseAt(s, t, enders) ==
    /\ t >= 1
    /\ t <= Len(s)
    /\ s[t] = 41
    /\ SkipSpaces(s, t + 1) <= Len(s)
    /\ s[SkipSpaces(s, t + 1)] \in enders

\* Param\("([^"]+)",\s*(".*?"|\S+)\)\s*;  matched with its first character at p:
\* groups 1 and 2
ParamMatchAt(s, p) ==
    LET n0     == p + 7
        quotes == {i \in n0..Len(s) : s[i] = 34}
        q1     == CHOOSE i \in quotes : \A j \in quotes : i <= j
        v0     == SkipSpaces(s, q1 + 2)
        quoted == {e \in (v0 + 1)..Len(s) : s[e] = 34 /\ CloseAt(s, e + 1, {59})}
        bare   == {e \in v0..Len(s) :
                      (\A i \in v0..e : ~IsSpace(s[i])) /\ CloseAt(s, e + 1, {59})}
    IN  IF ~HasAt(s, p, <<80, 97, 114, 97, 109, 40, 34>>) \/ quotes = {} THEN None
        ELSE IF q1 = n0 \/ ~HasAt(s, q1, <<34, 44>>) \/ v0 > Len(s) THEN None
        ELSE IF s[v0] = 34 /\ quoted # {}
             THEN Some([name  |-> SubSeq(s, n0, q1 - 1),
                        value |-> SubSeq(s, v0, CHOOSE e \in quoted : \A o \in quoted : e <= o)])
        ELSE IF bare # {}
             THEN Some([name  |-> SubSeq(s, n0, q1 - 1),
                        value |-> SubSeq(s, v0, CHOOSE e \in bare : \A o \in bare : o <= e)])
        ELSE None

\* param_re.search(line)
ParamSearch(s) ==
    LET hits == {p \in 1..Len(s) : ~IsNone(ParamMatchAt(s, p))}
    IN  IF hits = {} THEN None
        ELSE ParamMatchAt(s, CHOOSE p \in hits : \A o \in hits : p <= o)

\* prop_re.search(line):  ^\s*(?!Param\b)(\w+)\s*\((.*?)\)\s*(?:;|\{)
PropSearch(s) ==
    LET w0     == SkipSpaces(s, 1)
        w1     == CHOOSE i \in w0..(Len(s) + 1) :
                      /\ i = Len(s) + 1 \/ ~IsWord(s[i])
                      /\ \A j \in w0..(i - 1) : IsWord(s[j])
        par    == SkipSpaces(s, w1)
        closes == {e \in (par + 1)..Len(s) : CloseAt(s, e, {59, 123})}
        isParamWord == /\ HasAt(s, w0, <<80, 97, 114, 97, 109>>)
                       /\ (w0 + 5 > Len(s) \/ ~IsWord(s[w0 + 5]))
    IN  IF w1 = w0 \/ isParamWord \/ par > Len(s) THEN None
        ELSE IF s[par] # 40 \/ closes = {} THEN None
        ELSE Some([name  |-> SubSeq(s, w0, w1 - 1),
                   value |-> SubSeq(s, par + 1,
                                    (CHOOSE e \in closes : \A o \in closes : e <= o) - 1)])

\* a dict as the sequence of its (key, value) items in insertion order
DictHas(d, k) == \E i \in DOMAIN d : d[i][1] = k

DictGet(d, k) == d[CHOOSE i \in DOMAIN d : d[i][1] = k][2]

\* a dict store that keeps the value a key already has
DictSetKeepFirst(d, k, v) == IF DictHas(d, k) THEN d ELSE Append(d, <<k, v>>)

\* d[k] = v
DictSet(d, k, v) ==
    IF DictHas(d, k)
    THEN [i \in DOMAIN d |-> IF d[i][1] = k THEN <<k, v>> ELSE d[i]]
    ELSE Append(d, <<k, v>>)

\* the body of the loop of _parse_params for one line
ParseParamsLine(result, line) ==
    LET m1 == ParamSearch(line)
        m2 == PropSearch(line)
    IN  IF ~IsNone(m1)
        THEN DictSet(result, Val(m1).name, StripQuotes(Strip(Val(m1).value)))
        ELSE IF ~IsNone(m2)
             THEN DictSet(result, Val(m2).name, StripQuotes(Strip(Val(m2).value)))
             ELSE result

RECURSIVE ParseParamsFrom(_, _, _)
ParseParamsFrom(result, ls, i) ==
    IF i > Len(ls) THEN result
    ELSE ParseParamsFrom(ParseParamsLine(result, ls[i]), ls, i + 1)

\* _parse_params(lines)
ParseParams(ls) == ParseParamsFrom(<<>>, ls, 1)

\* ------------------------------------------------------------------------
\* difflib.unified_diff as text_comparison.py calls it (no junk, lineterm "\n").
\* Indices are Python's: 0-based, ranges half open.
\* ------------------------------------------------------------------------

Max(x, y) == IF x >= y THEN x ELSE y

Min(x, y) == IF x <= y THEN x ELSE y

\* a[i:i+k] == b[j:j+k]
SameBlock(a, b, i, j, k) == \A d \in 1..k : a[i + d] = b[j + d]

\* SequenceMatcher.find_longest_match: the longest block, of those the one
\* that starts earliest in a, of those the one that starts earliest in b
FindLongestMatch(a, b, alo, ahi, blo, bhi) ==
    LET blocks == {t \in (alo..ahi) \X (blo..bhi) \X (1..Min(ahi - alo, bhi - blo)) :
                      /\ t[1] + t[3] <= ahi
                      /\ t[2] + t[3] <= bhi
                      /\ SameBlock(a, b, t[1], t[2], t[3])}
        Better(t, u) == \/ t[3] > u[3]
                        \/ t[3] = u[3] /\ t[1] < u[1]
                        \/ t[3] = u[3] /\ t[1] = u[1] /\ t[2] <= u[2]
    IN  IF blocks = {} THEN <<alo, blo, 0>>
        ELSE CHOOSE t \in blocks : \A u \in blocks : Better(t, u)

RECURSIVE MatchingBlocksIn(_, _, _, _, _, _)
RECURSIVE MatchingBlocksAround(_, _, _, _, _, _, _)
\* the blocks get_matching_blocks collects for a[alo:ahi], b[blo:bhi], sorted
MatchingBlocksIn(a, b, alo, ahi, blo, bhi) ==
    MatchingBlocksAround(a, b, alo, ahi, blo, bhi, FindLongestMatch(a, b, alo, ahi, blo, bhi))

\* the longest match x = (i, j, k) between the blocks left and right of it
MatchingBlocksAround(a, b, alo, ahi, blo, bhi, x) ==
    IF x[3] = 0 THEN <<>>
    ELSE (IF alo < x[1] /\ blo < x[2]
          THEN MatchingBlocksIn(a, b, alo, x[1], blo, x[2]) ELSE <<>>)
         \o <<x>>
         \o (IF x[1] + x[3] < ahi /\ x[2] + x[3] < bhi
             THEN MatchingBlocksIn(a, b, x[1] + x[3], ahi, x[2] + x[3], bhi) ELSE <<>>)

RECURSIVE CollapseBlocks(_, _, _)
\* adjacent blocks merged: cur is (i1, j1, k1), n the next block to look at
CollapseBlocks(blocks, cur, n) ==
    IF n > Len(blocks) THEN (IF cur[3] > 0 THEN <<cur>> ELSE <<>>)
    ELSE IF cur[1] + cur[3] = blocks[n][1] /\ cur[2] + cur[3] = blocks[n][2]
         THEN CollapseBlocks(blocks, <<cur[1], cur[2], cur[3] + blocks[n][3]>>, n + 1)
         ELSE (IF cur[3] > 0 THEN <<cur>> ELSE <<>>) \o CollapseBlocks(blocks, blocks[n], n + 1)

\* SequenceMatcher.get_matching_blocks
GetMatchingBlocks(a, b) ==
    Append(CollapseBlocks(MatchingBlocksIn(a, b, 0, Len(a), 0, Len(b)), <<0, 0, 0>>, 1),
           <<Len(a), Len(b), 0>>)

RECURSIVE OpcodesFrom(_, _, _, _)
\* the loop of get_opcodes: an opcode is <<tag, i1, i2, j1, j2>>
OpcodesFrom(blocks, n, i, j) ==
    LET ai   == blocks[n][1]
        bj   == blocks[n][2]
        size == blocks[n][3]
        tag  == IF i < ai /\ j < bj THEN "replace"
                ELSE IF i < ai THEN "delete"
                ELSE IF j < bj THEN "insert"
                ELSE ""
    IN  IF n > Len(blocks) THEN <<>>
        ELSE (IF tag # "" THEN <<<<tag, i, ai, j, bj>>>> ELSE <<>>)
             \o (IF size > 0 THEN <<<<"equal", ai, ai + size, bj, bj + size>>>> ELSE <<>>)
             \o OpcodesFrom(blocks, n + 1, ai + size, bj + size)

\* SequenceMatcher.get_opcodes
GetOpcodes(a, b) == OpcodesFrom(GetMatchingBlocks(a, b), 1, 0, 0)

\* get_grouped_opcodes: codes = [("equal", 0, 1, 0, 1)] when there are none
NonEmptyCodes(codes) == IF codes = <<>> THEN <<<<"equal", 0, 1, 0, 1>>>> ELSE codes

\* get_grouped_opcodes: a leading 'equal' trimmed to its last n lines
TrimFirst(codes, n) ==
    LET f == codes[1]
    IN  IF f[1] = "equal"
        THEN [codes EXCEPT ![1] =
                 <<f[1], Max(f[2], f[3] - n), f[3], Max(f[4], f[5] - n), f[5]>>]
        ELSE codes

\* get_grouped_opcodes: a trailing 'equal' trimmed to its first n lines
TrimLast(codes, n) ==
    LET l == codes[Len(codes)]
    IN  IF l[1] = "equal"
        THEN [codes EXCEPT ![Len(codes)] =
                 <<l[1], l[2], Min(l[3], l[2] + n), l[4], Min(l[5], l[4] + n)>>]
        ELSE codes

\* get_grouped_opcodes: the opcodes with both ends trimmed
TrimmedCodes(a, b, n) == TrimLast(TrimFirst(NonEmptyCodes(GetOpcodes(a, b)), n), n)

RECURSIVE GroupsFrom(_, _, _, _)
\* the loop of get_grouped_opcodes and its closing yield
GroupsFrom(codes, k, group, n) ==
    LET c == codes[k]
    IN  IF k > Len(codes)
        THEN IF group # <<>> /\ ~(Len(group) = 1 /\ group[1][1] = "equal")
             THEN <<group>> ELSE <<>>
        ELSE IF c[1] = "equal" /\ c[3] - c[2] > n + n
             THEN <<Append(group, <<c[1], c[2], Min(c[3], c[2] + n), c[4], Min(c[5], c[4] + n)>>)>>
                  \o GroupsFrom(codes, k + 1,
                                <<<<c[1], Max(c[2], c[3] - n), c[3], Max(c[4], c[5] - n), c[5]>>>>, n)
             ELSE GroupsFrom(codes, k + 1, Append(group, c), n)

\* SequenceMatcher(None, a, b).get_grouped_opcodes(n)
GetGroupedOpcodes(a, b, n) == GroupsFrom(TrimmedCodes(a, b, n), 1, <<>>, n)

RECURSIVE DecStr(_)
\* '{}'.format(n) for n >= 0
DecStr(n) == IF n < 10 THEN <<48 + n>> ELSE DecStr(n \div 10) \o <<48 + (n % 10)>>

\* _format_range_unified(start, stop)
FormatRangeUnified(start, stop) ==
    IF stop - start = 1 THEN DecStr(start + 1)
    ELSE IF stop - start = 0 THEN DecStr(start) \o <<44>> \o DecStr(0)
    ELSE DecStr(start + 1) \o <<44>> \o DecStr(stop - start)

\* the lines of text[i1:i2], each behind the prefix character
Prefixed(prefix, text, i1, i2) == [d \in 1..(i2 - i1) |-> <<prefix>> \o text[i1 + d]]

RECURSIVE GroupBody(_, _, _, _)
\* the body lines unified_diff yields for the opcodes group[k..]
GroupBody(a, b, group, k) ==
    LET c == group[k]
    IN  IF k > Len(group) THEN <<>>
        ELSE (IF c[1] = "equal" THEN Prefixed(32, a, c[2], c[3])
              ELSE (IF c[1] \in {"replace", "delete"} THEN Prefixed(45, a, c[2], c[3]) ELSE <<>>)
                   \o (IF c[1] \in {"replace", "insert"} THEN Prefixed(43, b, c[4], c[5]) ELSE <<>>))
             \o GroupBody(a, b, group, k + 1)

\* the hunk header and the body unified_diff yields for one group
HunkLines(a, b, group) ==
    <<<<64, 64, 32, 45>>
        \o FormatRangeUnified(group[1][2], group[Len(group)][3])
        \o <<32, 43>>
        \o FormatRangeUnified(group[1][4], group[Len(group)][5])
        \o <<32, 64, 64, 10>>>>
    \o GroupBody(a, b, group, 1)

RECURSIVE AllHunkLines(_, _, _, _)
AllHunkLines(a, b, groups, g) ==
    IF g > Len(groups) THEN <<>>
    ELSE HunkLines(a, b, groups[g]) \o AllHunkLines(a, b, groups, g + 1)

\* the lines unified_diff yields for the groups of opcodes: the file header
\* before the first hunk, then the hunks
DiffLinesOf(a, b, fromfile, tofile, groups) ==
    IF groups = <<>> THEN <<>>
    ELSE <<<<45, 45, 45, 32>> \o fromfile \o <<10>>,
           <<43, 43, 43, 32>> \o tofile \o <<10>>>>
         \o AllHunkLines(a, b, groups, 1)

\* list(difflib.unified_diff(a, b, fromfile=fromfile, tofile=tofile, n=n))
UnifiedDiff(a, b, fromfile, tofile, n) ==
    DiffLinesOf(a, b, fromfile, tofile, GetGroupedOpcodes(a, b, n))

\* ------------------------------------------------------------------------
\* _extract_changed_lines: the loop state and one operator per branch
\* ------------------------------------------------------------------------

ExtStart ==
    [changes |-> <<>>, old_line_num |-> None, new_line_num |-> None,
     last_was_minus |-> FALSE, last_minus_content |-> None,
     last_minus_line_num |-> None]

\* Inc counting downwards
IncCountsDown(n) == IF IsNone(n) THEN n ELSE Some(Val(n) - 1)

Inc(n) == IF IsNone(n) THEN n ELSE Some(Val(n) + 1)

HasPending(st) ==
    st.last_was_minus /\ ~IsNone(st.last_minus_content) /\ ~IsNone(st.last_minus_line_num)

\* the pending removal left in place
ClearPendingKeeps(st) == st

ClearPending(st) ==
    [st EXCEPT !.last_was_minus = FALSE, !.last_minus_content = None,
               !.last_minus_line_num = None]

IsHunkHeader(line) == StartsWith(line, <<64, 64>>)

IsFileHeader(line) == StartsWith(line, <<45, 45, 45>>) \/ StartsWith(line, <<43, 43, 43>>)

IsMinusLine(line) == StartsWith(line, <<45>>) /\ ~StartsWith(line, <<45, 45>>)

IsPlusLine(line) == StartsWith(line, <<43>>) /\ ~StartsWith(line, <<43, 43>>)

HeaderStartsValid(m) ==
    /\ m.old_start > 0
    /\ m.new_start > 0
    /\ m.old_start <= 100000000
    /\ m.new_start <= 100000000

\* HunkHeaderStep without the reset of the pending removal
HunkHeaderStepKeepsPending(st, line) ==
    LET match == HeaderSearch(line)
        ok    == ~IsNone(match) /\ HeaderStartsValid(Val(match))
    IN  [st EXCEPT !.old_line_num = IF ok THEN Some(Val(match).old_start) ELSE None,
                   !.new_line_num = IF ok THEN Some(Val(match).new_start) ELSE None]

HunkHeaderStep(st, line) ==
    LET match == HeaderSearch(line)
        ok    == ~IsNone(match) /\ HeaderStartsValid(Val(match))
    IN  ClearPending(
          [st EXCEPT !.old_line_num = IF ok THEN Some(Val(match).old_start) ELSE None,
                     !.new_line_num = IF ok THEN Some(Val(match).new_start) ELSE None])

\* MinusStep that captures the old-side number after the increment
MinusStepNumbersAfterIncrement(st, line) ==
    LET content == Tail(line)
    IN  IF ~IsNone(st.old_line_num)
        THEN [st EXCEPT !.last_minus_content = Some(content),
                        !.last_minus_line_num = Inc(st.old_line_num),
                        !.last_was_minus = TRUE,
                        !.old_line_num = Inc(st.old_line_num)]
        ELSE st

MinusStep(st, line) ==
    LET content == Tail(line)
    IN  IF ~IsNone(st.old_line_num)
        THEN [st EXCEPT !.last_minus_content = Some(content),
                        !.last_minus_line_num = st.old_line_num,
                        !.last_was_minus = TRUE,
                        !.old_line_num = Inc(st.old_line_num)]
        ELSE st

\* PlusStep with the guard of MinusStep: an addition met while the new-side
\* counter is None is not recorded
PlusStepDropsUnnumbered(st, line) ==
    LET content == Tail(line)
    IN  IF HasPending(st)
        THEN ClearPending(
               [st EXCEPT !.changes = Append(st.changes,
                              <<st.last_minus_content, Some(content),
                                st.last_minus_line_num, st.new_line_num>>),
                          !.new_line_num = Inc(st.new_line_num)])
        ELSE IF ~IsNone(st.new_line_num)
             THEN [st EXCEPT !.changes = Append(st.changes,
                                 <<None, Some(content), None, st.new_line_num>>),
                             !.new_line_num = Inc(st.new_line_num)]
             ELSE st

PlusStep(st, line) ==
    LET content == Tail(line)
    IN  IF HasPending(st)
        THEN ClearPending(
               [st EXCEPT !.changes = Append(st.changes,
                              <<st.last_minus_content, Some(content),
                                st.last_minus_line_num, st.new_line_num>>),
                          !.new_line_num = Inc(st.new_line_num)])
        ELSE [st EXCEPT !.changes = Append(st.changes,
                            <<None, Some(content), None, st.new_line_num>>),
                        !.new_line_num = Inc(st.new_line_num)]

\* FlushPending that leaves the new-side counter in the removal tuple
FlushPendingKeepsNewNumber(st) ==
    IF HasPending(st)
    THEN ClearPending(
           [st EXCEPT !.changes = Append(st.changes,
                          <<st.last_minus_content, None, st.last_minus_line_num,
                            st.new_line_num>>)])
    ELSE st

FlushPending(st) ==
    IF HasPending(st)
    THEN ClearPending(
           [st EXCEPT !.changes = Append(st.changes,
                          <<st.last_minus_content, None, st.last_minus_line_num, None>>)])
    ELSE st

\* ContextStep without the flush of the pending removal
ContextStepKeepsPending(st, line) ==
    [st EXCEPT !.old_line_num = Inc(st.old_line_num),
               !.new_line_num = Inc(st.new_line_num)]

ContextStep(st, line) ==
    LET f == FlushPending(st)
    IN  [f EXCEPT !.old_line_num = Inc(f.old_line_num),
                  !.new_line_num = Inc(f.new_line_num)]

LineKind(line) ==
    IF IsHunkHeader(line) THEN "hunk"
    ELSE IF IsFileHeader(line) THEN "fileheader"
    ELSE IF line = <<>> THEN "blank"
    ELSE IF IsMinusLine(line) THEN "minus"
    ELSE IF IsPlusLine(line) THEN "plus"
    ELSE "context"

\* one iteration of the for loop
ExtractStep(st, line) ==
    CASE LineKind(line) = "hunk"       -> HunkHeaderStep(st, line)
      [] LineKind(line) = "fileheader" -> st
      [] LineKind(line) = "blank"      -> st
      [] LineKind(line) = "minus"      -> MinusStep(st, line)
      [] LineKind(line) = "plus"       -> PlusStep(st, line)
      [] LineKind(line) = "context"    -> ContextStep(st, line)

RECURSIVE ExtractLoop(_, _, _)
ExtractLoop(st, ls, i) ==
    IF i > Len(ls) THEN st ELSE ExtractLoop(ExtractStep(st, ls[i]), ls, i + 1)

\* _extract_changed_lines(diff_str)
ExtractChangedLines(diff_str) ==
    FlushPending(ExtractLoop(ExtStart, SplitLines(diff_str), 1)).changes

\* ------------------------------------------------------------------------
\* _extract_param_changes_from_diff and _extract_json_key_changes
\* ------------------------------------------------------------------------

\* the last index of v that holds a character other than c (0: none)
LastOtherThan(v, c) ==
    LET keep == {i \in DOMAIN v : v[i] # c}
    IN  IF keep = {} THEN 0 ELSE CHOOSE i \in keep : \A j \in keep : j <= i

\* the last index of s that holds a character that is not white space (0: none)
LastNonSpace(s) ==
    LET keep == {i \in DOMAIN s : ~IsSpace(s[i])}
    IN  IF keep = {} THEN 0 ELSE CHOOSE i \in keep : \A j \in keep : j <= i

\* ini_kv_re.search(line):  ^\s*([^=#\[\s]+?)\s*=\s*(.+?)\s*$
IniSearch(s) ==
    LET k0 == SkipSpaces(s, 1)
        InKey(c) == c \notin {61, 35, 91} /\ ~IsSpace(c)
        k1 == CHOOSE i \in k0..(Len(s) + 1) :
                  /\ i = Len(s) + 1 \/ ~InKey(s[i])
                  /\ \A j \in k0..(i - 1) : InKey(s[j])
        q  == SkipSpaces(s, k1)
        v0 == SkipSpaces(s, q + 1)
    IN  IF k1 = k0 \/ q >= Len(s) THEN None
        ELSE IF s[q] # 61 THEN None
        ELSE Some([name  |-> SubSeq(s, k0, k1 - 1),
                   value |-> IF v0 > Len(s) THEN <<s[Len(s)]>>
                             ELSE SubSeq(s, v0, LastNonSpace(s))])

\* extract_param_from_line(line): None, or the name and the value
ExtractParamFromLine(line) ==
    LET m1 == ParamSearch(line)
        m2 == PropSearch(line)
        m3 == IniSearch(line)
        v2 == Strip(Val(m2).value)
        commas == {i \in DOMAIN v2 : v2[i] = 44}
        last2  == IF commas = {} THEN v2
                  ELSE Strip(SubSeq(v2, (CHOOSE i \in commas : \A j \in commas : j <= i) + 1,
                                    Len(v2)))
    IN  IF line = <<>> THEN None
        ELSE IF ~IsNone(m1)
             THEN Some([name |-> Val(m1).name, value |-> StripQuotes(Strip(Val(m1).value))])
        ELSE IF ~IsNone(m2)
             THEN Some([name |-> Val(m2).name, value |-> StripQuotes(last2)])
        ELSE IF ~IsNone(m3)
             THEN Some([name |-> Strip(Val(m3).name), value |-> StripQuotes(Strip(Val(m3).value))])
        ELSE None

\* json_kv_re.search(line):  ^\s*"([^"]+)":\s*(.+?)\s*,?\s*$
JsonKvSearch(s) ==
    LET k      == SkipSpaces(s, 1)
        quotes == {i \in (k + 1)..Len(s) : s[i] = 34}
        q1     == CHOOSE i \in quotes : \A j \in quotes : i <= j
        v0     == SkipSpaces(s, q1 + 2)
        RestOk(e) == LET u == SkipSpaces(s, e + 1)
                     IN  u > Len(s) \/ (s[u] = 44 /\ SkipSpaces(s, u + 1) > Len(s))
        ends   == {e \in v0..Len(s) : RestOk(e)}
    IN  IF k > Len(s) \/ quotes = {} THEN None
        ELSE IF s[k] # 34 \/ q1 = k + 1 \/ q1 + 1 >= Len(s) THEN None
        ELSE IF s[q1 + 1] # 58 THEN None
        ELSE Some([name  |-> SubSeq(s, k + 1, q1 - 1),
                   value |-> IF v0 > Len(s) THEN <<s[Len(s)]>>
                             ELSE SubSeq(s, v0, CHOOSE e \in ends : \A o \in ends : e <= o)])

\* the key and the value _extract_json_key_changes takes from one side of a tuple
\* (side: None or a line)
JsonSide(side) ==
    LET m == JsonKvSearch(Val(side))
        g == Strip(Val(m).value)
    IN  IF IsNone(side) THEN None
        ELSE IF Val(side) = <<>> \/ IsNone(m) THEN None
        ELSE Some([name  |-> Val(m).name,
                   value |-> StripQuotes(Strip(SubSeq(g, 1, LastOtherThan(g, 44))))])

\* the name and the value the generic mode takes from one side of a tuple
GenericSide(side) ==
    IF IsNone(side) THEN None
    ELSE IF Val(side) = <<>> THEN None
    ELSE ExtractParamFromLine(Val(side))

\* a name that is neither None nor empty
Truthy(o) == ~IsNone(o) /\ Val(o).name # <<>>

\* ClassifySides that takes two different names as the addition of the new one
ClassifySidesRenameAsAddition(old, new) ==
    IF Truthy(old) /\ Truthy(new) /\ Val(old).name = Val(new).name
       /\ Val(old).value # Val(new).value
    THEN <<<<Val(old).name, Val(old).value, Val(new).value>>>>
    ELSE IF Truthy(new) /\ (~Truthy(old) \/ Val(old).name # Val(new).name)
         THEN <<<<Val(new).name, <<>>, Val(new).value>>>>
    ELSE IF Truthy(old) /\ ~Truthy(new)
         THEN <<<<Val(old).name, Val(old).value, <<>>>>>>
    ELSE <<>>

\* ClassifySides without the branch of the removed name
ClassifySidesWithoutRemovals(old, new) ==
    IF Truthy(old) /\ Truthy(new) /\ Val(old).name = Val(new).name
       /\ Val(old).value # Val(new).value
    THEN <<<<Val(old).name, Val(old).value, Val(new).value>>>>
    ELSE IF Truthy(new) /\ ~Truthy(old)
         THEN <<<<Val(new).name, <<>>, Val(new).value>>>>
    ELSE <<>>

\* the triples (none or one) a tuple adds to param_changes, from its two sides
ClassifySides(old, new) ==
    IF Truthy(old) /\ Truthy(new) /\ Val(old).name = Val(new).name
       /\ Val(old).value # Val(new).value
    THEN <<<<Val(old).name, Val(old).value, Val(new).value>>>>
    ELSE IF Truthy(new) /\ ~Truthy(old)
         THEN <<<<Val(new).name, <<>>, Val(new).value>>>>
    ELSE IF Truthy(old) /\ ~Truthy(new)
         THEN <<<<Val(old).name, Val(old).value, <<>>>>>>
    ELSE <<>>

\* the triples of one tuple before those of the later tuples, dropped when a
\* later triple carries the same name
KeepUnlessLater(here, rest) ==
    IF here # <<>> /\ \E i \in DOMAIN rest : rest[i][1] = here[1][1] THEN rest
    ELSE here \o rest

RECURSIVE ParamChangesFromLastWins(_, _, _)
\* the loop over changed_lines keeping for each name its last triple only
ParamChangesFromLastWins(changed_lines, is_json, k) ==
    IF k > Len(changed_lines) THEN <<>>
    ELSE KeepUnlessLater(
             IF is_json
             THEN ClassifySides(JsonSide(changed_lines[k][1]), JsonSide(changed_lines[k][2]))
             ELSE ClassifySides(GenericSide(changed_lines[k][1]),
                                GenericSide(changed_lines[k][2])),
             ParamChangesFromLastWins(changed_lines, is_json, k + 1))

RECURSIVE ParamChangesFrom(_, _, _)
ParamChangesFrom(changed_lines, is_json, k) ==
    IF k > Len(changed_lines) THEN <<>>
    ELSE (IF is_json
          THEN ClassifySides(JsonSide(changed_lines[k][1]), JsonSide(changed_lines[k][2]))
          ELSE ClassifySides(GenericSide(changed_lines[k][1]), GenericSide(changed_lines[k][2])))
         \o ParamChangesFrom(changed_lines, is_json, k + 1)

\* _extract_param_changes_from_diff(changed_lines, is_json)
ExtractParamChangesFromDiff(changed_lines, is_json) ==
    ParamChangesFrom(changed_lines, is_json, 1)

\* ------------------------------------------------------------------------
\* _normalize_json: json.loads, then json.dumps(indent=2, sort_keys=True,
\* ensure_ascii=False).  The texts modelled hold objects, arrays, strings
\* without escape sequences, integers, true, false and null.
\* A parsed value is <<kind, payload>>; a parse result is [ok, val, next].
\* ------------------------------------------------------------------------

JsonFail == [ok |-> FALSE, val |-> <<>>, next |-> 0]

JsonOk(v, n) == [ok |-> TRUE, val |-> v, next |-> n]

\* the first index >= i that is not JSON white space (Len(s) + 1: none)
JsonSkipWs(s, i) ==
    CHOOSE k \in i..(Len(s) + 1) :
        /\ k = Len(s) + 1 \/ s[k] \notin {32, 9, 10, 13}
        /\ \A j \in i..(k - 1) : s[j] \in {32, 9, 10, 13}

\* a string literal at i
JsonString(s, i) ==
    LET quotes == {q \in (i + 1)..Len(s) : s[q] = 34}
        q      == CHOOSE x \in quotes : \A y \in quotes : x <= y
    IN  IF i > Len(s) \/ quotes = {} THEN JsonFail
        ELSE IF s[i] # 34 \/ \E j \in (i + 1)..(q - 1) : s[j] < 32 \/ s[j] = 92 THEN JsonFail
        ELSE JsonOk(<<"str", SubSeq(s, i + 1, q - 1)>>, q + 1)

\* an integer at i:  -?(?:0|[1-9]\d*)
JsonNumber(s, i) ==
    LET d0 == IF s[i] = 45 THEN i + 1 ELSE i
        de == IF d0 <= Len(s) /\ s[d0] = 48 THEN d0 ELSE DigitsEnd(s, d0)
        txt == SubSeq(s, i, de)
    IN  IF de < d0 THEN JsonFail
        ELSE JsonOk(<<"num", IF txt = <<45, 48>> THEN <<48>> ELSE txt>>, de + 1)

RECURSIVE JsonValue(_, _)
RECURSIVE JsonElements(_, _, _)
RECURSIVE JsonMembers(_, _, _)

\* the elements of an array from the value at i on; acc holds the earlier ones
JsonElements(s, i, acc) ==
    LET v == JsonValue(s, i)
        k == JsonSkipWs(s, v.next)
    IN  IF ~v.ok \/ k > Len(s) THEN JsonFail
        ELSE IF s[k] = 44 THEN JsonElements(s, JsonSkipWs(s, k + 1), Append(acc, v.val))
        ELSE IF s[k] = 93 THEN JsonOk(<<"arr", Append(acc, v.val)>>, k + 1)
        ELSE JsonFail

\* the members of an object from the key at i on; acc is the dict built so far
JsonMembers(s, i, acc) ==
    LET key == JsonString(s, i)
        c   == JsonSkipWs(s, key.next)
        v   == JsonValue(s, JsonSkipWs(s, c + 1))
        k   == JsonSkipWs(s, v.next)
        d   == DictSet(acc, key.val[2], v.val)
    IN  IF ~key.ok \/ c > Len(s) THEN JsonFail
        ELSE IF s[c] # 58 THEN JsonFail
        ELSE IF ~v.ok \/ k > Len(s) THEN JsonFail
        ELSE IF s[k] = 44 THEN JsonMembers(s, JsonSkipWs(s, k + 1), d)
        ELSE IF s[k] = 125 THEN JsonOk(<<"obj", d>>, k + 1)
        ELSE JsonFail

\* the value that starts at i
JsonValue(s, i) ==
    IF i > Len(s) THEN JsonFail
    ELSE IF s[i] = 34 THEN JsonString(s, i)
    ELSE IF s[i] = 123
         THEN IF JsonSkipWs(s, i + 1) <= Len(s) /\ s[JsonSkipWs(s, i + 1)] = 125
              THEN JsonOk(<<"obj", <<>>>>, JsonSkipWs(s, i + 1) + 1)
              ELSE JsonMembers(s, JsonSkipWs(s, i + 1), <<>>)
    ELSE IF s[i] = 91
         THEN IF JsonSkipWs(s, i + 1) <= Len(s) /\ s[JsonSkipWs(s, i + 1)] = 93
              THEN JsonOk(<<"arr", <<>>>>, JsonSkipWs(s, i + 1) + 1)
              ELSE JsonElements(s, JsonSkipWs(s, i + 1), <<>>)
    ELSE IF HasAt(s, i, <<110, 117, 108, 108>>) THEN JsonOk(<<"lit", <<110, 117, 108, 108>>>>, i + 4)
    ELSE IF HasAt(s, i, <<116, 114, 117, 101>>) THEN JsonOk(<<"lit", <<116, 114, 117, 101>>>>, i + 4)
    ELSE IF HasAt(s, i, <<102, 97, 108, 115, 101>>)
         THEN JsonOk(<<"lit", <<102, 97, 108, 115, 101>>>>, i + 5)
    ELSE IF s[i] = 45 \/ IsDigit(s[i]) THEN JsonNumber(s, i)
    ELSE JsonFail

\* json.loads(content)
JsonLoads(s) ==
    LET v == JsonValue(s, JsonSkipWs(s, 1))
    IN  IF v.ok /\ JsonSkipWs(s, v.next) = Len(s) + 1 THEN v ELSE JsonFail

\* a < b for str
StrLess(a, b) ==
    \E k \in 1..(Len(b)) :
        /\ \A j \in 1..(k - 1) : j <= Len(a) /\ a[j] = b[j]
        /\ k > Len(a) \/ a[k] < b[k]

\* the items of a dict in insertion order (sort_keys left out)
ItemsAsInserted(d) == d

\* the items of a dict sorted by key
SortedItems(d) ==
    [r \in DOMAIN d |->
        d[CHOOSE i \in DOMAIN d :
              Cardinality({j \in DOMAIN d : StrLess(d[j][1], d[i][1])}) = r - 1]]

\* "\n" and the indentation of a nesting level
NewlineIndent(level) == <<10>> \o [k \in 1..(2 * level) |-> 32]

RECURSIVE JsonDump(_, _)
RECURSIVE JsonDumpItems(_, _, _, _)

\* the items of a container from the k-th on, each on its own line
JsonDumpItems(kind, items, k, level) ==
    IF k > Len(items) THEN <<>>
    ELSE (IF k > 1 THEN <<44>> ELSE <<>>)
         \o NewlineIndent(level)
         \o (IF kind = "obj"
             THEN <<34>> \o items[k][1] \o <<34, 58, 32>> \o JsonDump(items[k][2], level)
             ELSE JsonDump(items[k], level))
         \o JsonDumpItems(kind, items, k + 1, level)

\* json.dumps(value, indent=2, sort_keys=True, ensure_ascii=False) at a nesting level
JsonDump(v, level) ==
    IF v[1] = "str" THEN <<34>> \o v[2] \o <<34>>
    ELSE IF v[1] \in {"num", "lit"} THEN v[2]
    ELSE IF v[1] = "arr"
         THEN IF v[2] = <<>> THEN <<91, 93>>
              ELSE <<91>> \o JsonDumpItems("arr", v[2], 1, level + 1)
                   \o NewlineIndent(level) \o <<93>>
    ELSE IF v[2] = <<>> THEN <<123, 125>>
         ELSE <<123>> \o JsonDumpItems("obj", SortedItems(v[2]), 1, level + 1)
              \o NewlineIndent(level) \o <<125>>

\* _normalize_json(content): None when content is not JSON
NormalizeJson(content) ==
    IF JsonLoads(content).ok THEN Some(JsonDump(JsonLoads(content).val, 0)) ELSE None

\* ------------------------------------------------------------------------
\* compare_plain_text_files: the results and the text branch
\* ------------------------------------------------------------------------

\* models.FileDiff
FileDiff(path, kind, diff, param_changes, diff_truncated, changed_lines) ==
    [path |-> path, kind |-> kind, diff |-> diff, param_changes |-> param_changes,
     diff_truncated |-> diff_truncated, changed_lines |-> changed_lines]

\* FileDiff(path=..., kind="removed", diff=None)
RemovedDiff(name) == FileDiff(name, "removed", None, None, FALSE, None)

\* FileDiff(path=..., kind="modified-binary")
BinaryDiff(name) == FileDiff(name, "modified-binary", None, None, FALSE, None)

\* what the except branch of the read of modded_path returns
ModdedUnreadableResult(name, orig_bytes) ==
    IF IsText(orig_bytes) THEN <<RemovedDiff(name)>> ELSE <<>>

\* the comparison of the bytes made for text content only
IdenticalIfText(orig_bytes, mod_bytes) == orig_bytes = mod_bytes /\ IsText(orig_bytes)

\* orig_bytes == mod_bytes
Identical(orig_bytes, mod_bytes) == orig_bytes = mod_bytes

\* one text side taken as enough
EitherText(orig_bytes, mod_bytes) == IsText(orig_bytes) \/ IsText(mod_bytes)

\* orig_is_text and mod_is_text
BothText(orig_bytes, mod_bytes) == IsText(orig_bytes) /\ IsText(mod_bytes)

\* the size test with strict comparisons
WithinLimitStrict(orig_bytes, mod_bytes, max_text_bytes) ==
    Len(orig_bytes) < max_text_bytes /\ Len(mod_bytes) < max_text_bytes

\* len(orig_bytes) <= max_text_bytes and len(mod_bytes) <= max_text_bytes
WithinLimit(orig_bytes, mod_bytes, max_text_bytes) ==
    Len(orig_bytes) <= max_text_bytes /\ Len(mod_bytes) <= max_text_bytes

\* PurePath.suffix of a file name
Suffix(name) ==
    LET dots == {i \in DOMAIN name : name[i] = 46}
        d    == CHOOSE i \in dots : \A j \in dots : j <= i
    IN  IF dots = {} THEN <<>>
        ELSE IF 1 < d /\ d < Len(name) THEN SubSeq(name, d, Len(name)) ELSE <<>>

\* str.lower(), for the letters A to Z
Lower(t) == [i \in DOMAIN t |-> IF t[i] \in 65..90 THEN t[i] + 32 ELSE t[i]]

JsonLikeSuffixes ==
    { <<46, 106, 115, 111, 110>>,     \* ".json"
      <<46, 103, 117, 105>>,          \* ".gui"
      <<46, 99, 102, 103>> }          \* ".cfg"

\* the normalization step applied to each side on its own
JsonGateOfEachSide(json_suffix, orig_content, mod_content, normalized_orig, normalized_mod) ==
    [orig_content |-> IF json_suffix /\ ~IsNone(normalized_orig)
                      THEN Val(normalized_orig) ELSE orig_content,
     mod_content  |-> IF json_suffix /\ ~IsNone(normalized_mod)
                      THEN Val(normalized_mod) ELSE mod_content,
     is_json      |-> json_suffix /\ ~IsNone(normalized_orig) /\ ~IsNone(normalized_mod)]

\* if normalized_orig and normalized_mod: the contents and the JSON flag after
\* the normalization step, for a name whose suffix qualifies (json_suffix)
JsonGateOf(json_suffix, orig_content, mod_content, normalized_orig, normalized_mod) ==
    IF /\ json_suffix
       /\ ~IsNone(normalized_orig) /\ normalized_orig # Some(<<>>)
       /\ ~IsNone(normalized_mod) /\ normalized_mod # Some(<<>>)
    THEN [orig_content |-> Val(normalized_orig), mod_content |-> Val(normalized_mod),
          is_json |-> TRUE]
    ELSE [orig_content |-> orig_content, mod_content |-> mod_content, is_json |-> FALSE]

\* the texts compared and the JSON flags, after the normalization step
JsonGate(name, orig_content, mod_content) ==
    JsonGateOf(Lower(Suffix(name)) \in JsonLikeSuffixes, orig_content, mod_content,
               NormalizeJson(orig_content), NormalizeJson(mod_content))

\* orig_text: the lines compared
OrigText(name, orig_bytes, mod_bytes) ==
    SplitLines(JsonGate(name, DecodeText(orig_bytes), DecodeText(mod_bytes)).orig_content)

\* mod_text: the lines compared
ModText(name, orig_bytes, mod_bytes) ==
    SplitLines(JsonGate(name, DecodeText(orig_bytes), DecodeText(mod_bytes)).mod_content)

\* param_changes or None
OrNone(list) == IF list = <<>> THEN None ELSE Some(list)

RECURSIVE FallbackFrom(_, _, _)
\* the loop over orig_params.items() of the truncated branch
FallbackFrom(orig_params, mod_params, k) ==
    LET name    == orig_params[k][1]
        old_val == orig_params[k][2]
    IN  IF k > Len(orig_params) THEN <<>>
        ELSE (IF DictHas(mod_params, name) /\ DictGet(mod_params, name) # old_val
              THEN <<<<name, old_val, DictGet(mod_params, name)>>>> ELSE <<>>)
             \o FallbackFrom(orig_params, mod_params, k + 1)

\* the result without diff marked as truncated
NoDiffResultMarkedTruncated(name) ==
    FileDiff(name, "modified-text", None, OrNone(<<>>), TRUE, None)

\* the result when include_diff is false
NoDiffResult(name) == FileDiff(name, "modified-text", None, OrNone(<<>>), FALSE, None)

\* the result of the diff branch, from changed_lines on
DiffResultWith(name, diff_str, changed_lines, is_json) ==
    FileDiff(name, "modified-text", Some(diff_str),
             OrNone(IF changed_lines # <<>>
                    THEN ExtractParamChangesFromDiff(changed_lines, is_json)
                    ELSE <<>>),
             FALSE, Some(changed_lines))

\* the result of the diff branch, from diff_str on
DiffResultFrom(name, diff_str, is_json) ==
    DiffResultWith(name, diff_str, ExtractChangedLines(diff_str), is_json)

\* the result of the diff branch for the contents gate leaves the JSON step with
DiffResultOf(name, modded_name, gate, context) ==
    DiffResultFrom(name,
                   JoinLines(UnifiedDiff(SplitLines(gate.orig_content),
                                         SplitLines(gate.mod_content),
                                         <<111, 114, 105, 103, 105, 110, 97, 108, 47>> \o name,
                                         <<109, 111, 100, 100, 101, 100, 47>> \o modded_name,
                                         context)),
                   gate.is_json)

\* the result of the branch that computes the diff
DiffResult(name, modded_name, orig_bytes, mod_bytes, context) ==
    DiffResultOf(name, modded_name,
                 JsonGate(name, DecodeText(orig_bytes), DecodeText(mod_bytes)), context)

\* the result of the truncated branch for the contents gate leaves the JSON step with
TruncatedResultOf(name, gate) ==
    FileDiff(name, "modified-text", None,
             OrNone(FallbackFrom(ParseParams(SplitLines(gate.orig_content)),
                                 ParseParams(SplitLines(gate.mod_content)), 1)),
             TRUE, None)

\* the result of the branch taken when a side exceeds max_text_bytes
TruncatedResult(name, orig_bytes, mod_bytes) ==
    TruncatedResultOf(name, JsonGate(name, DecodeText(orig_bytes), DecodeText(mod_bytes)))

\* ------------------------------------------------------------------------
\* The extractor run line by line on any diff text
\* ------------------------------------------------------------------------

MaxDiffLines == 4

DiffLineCatalogue ==
    { <<64, 64, 32, 45, 51, 44, 50, 32, 43, 53, 32, 64, 64>>,   \* "@@ -3,2 +5 @@"
      <<64, 64, 32, 45, 48, 44, 48, 32, 43, 49, 32, 64, 64>>,   \* "@@ -0,0 +1 @@"
      <<64, 64, 32, 45, 120, 32, 43, 49, 32, 64, 64>>,          \* "@@ -x +1 @@"
      <<45, 97>>,                                               \* "-a"
      <<45, 98>>,                                               \* "-b"
      <<43, 99>>,                                               \* "+c"
      <<32, 100>>,                                              \* " d"
      <<45, 45, 45, 32, 111>>,                                  \* "--- o"
      <<43, 43, 101>>,                                          \* "++e"
      <<>> }                                                    \* ""

SeqsUpTo(S, n) == UNION {[1..k -> S] : k \in 0..n}

MaxFileLines == 2

\* the lines the text files are made of
FileLineCatalogue ==
    { <<83, 112, 101, 101, 100, 40, 49, 48, 41, 59>>,                       \* Speed(10);
      <<83, 112, 101, 101, 100, 40, 50, 48, 41, 59>> }                      \* Speed(20);

\* whole files besides the ones made of FileLineCatalogue
ExtraFiles ==
    { <<80, 97, 114, 97, 109, 40, 34, 72, 112, 34, 44, 32, 53, 41, 59>>,    \* Param("Hp", 5);
      <<80, 97, 114, 97, 109, 40, 34, 72, 112, 34, 44, 32, 53, 41, 59, 10,
        83, 112, 101, 101, 100, 40, 49, 48, 41, 59>>,                       \* Param("Hp", 5); Speed(10);
      <<83, 112, 101, 101, 100, 40, 49, 48, 41, 59, 10, 43, 120>>,           \* Speed(10); +x
      <<83, 0>>,                                                            \* "S" NUL
      <<83, 255>>,                                                          \* "S", invalid UTF-8
      <<123, 34, 98, 34, 58, 50, 44, 34, 97, 34, 58, 49, 125>>,             \* {"b":2,"a":1}
      <<123, 34, 97, 34, 58, 49, 44, 34, 98, 34, 58, 50, 125>>,             \* {"a":1,"b":2}
      <<123, 34, 97, 34, 58, 32, 49, 44, 32, 34, 98, 34, 58, 32, 51, 125>> } \* {"a": 1, "b": 3}

FileCatalogue ==
    {JoinLines(ls) : ls \in SeqsUpTo(FileLineCatalogue, MaxFileLines)} \cup ExtraFiles

OriginalNames ==
    { <<97, 46, 116, 120, 116>>,          \* a.txt
      <<98, 46, 74, 83, 79, 78>> }        \* b.JSON

ModdedNames == { <<109, 46, 116, 120, 116>> }    \* m.txt

ContextChoices == {0, 1}

MaxBytesChoices == {0, 10, 1000000}

VARIABLES
    diff_str,             \* the argument of _extract_changed_lines
    lines,                \* diff_str.splitlines()
    idx,                  \* number of lines the for loop has consumed
    ext,                  \* the local variables of _extract_changed_lines
    xpc,                  \* "idle", "call", "loop", "done"
    original_file,        \* the bytes at original_path, None when it cannot be read
    modded_file,          \* the bytes at modded_path, None when it cannot be read
    original_name,        \* original_path.name
    modded_name,          \* modded_path.name
    context,              \* argument context
    include_diff,         \* argument include_diff
    max_text_bytes,       \* argument max_text_bytes
    pc,                   \* "idle", "open_original", "open_modded", "compare", "done"
    orig_bytes,           \* local orig_bytes, None before the read
    mod_bytes,            \* local mod_bytes, None before the read
    modded_opened,        \* open(modded_path) has been called
    comparisons,          \* the list returned
    raised,               \* an exception has left compare_plain_text_files
    arg_changed_lines,    \* the argument changed_lines of _extract_param_changes_from_diff
    arg_is_json,          \* the argument is_json
    param_changes,        \* the local list param_changes
    tuple_idx,            \* number of tuples the for loop has consumed
    ppc,                  \* "idle", "loop", "done"
    started,              \* number of handle_compare calls that reached run_comparison
    wpc,                  \* per run, where its worker thread is
    exc_bound,            \* per run, the worker's variable exc is bound
    after_queue,          \* the callbacks app.after has scheduled, oldest first
    completed,            \* per run, number of on_complete calls
    errored,              \* per run, number of on_error calls
    callback_raised,      \* per run, number of scheduled callbacks that raised
    storage,              \* the run whose diffs and paths all_diffs_storage holds (0: none)
    status                \* the status line

exVars == <<diff_str, lines, idx, ext, xpc>>

fsVars == <<original_file, modded_file, original_name, modded_name>>

argVars == <<context, include_diff, max_text_bytes>>

cmpVars == <<pc, orig_bytes, mod_bytes, modded_opened, comparisons, raised>>

prmVars == <<arg_changed_lines, arg_is_json, param_changes, tuple_idx, ppc>>

\* the variables of the functions beside the extractor and the comparator
uiVars == <<started, wpc, exc_bound, after_queue, completed, errored, callback_raised,
            storage, status>>

restVars == <<prmVars, uiVars>>

\* the variables of the extractor and the comparator
coreVars == <<exVars, fsVars, argVars, cmpVars>>

vars == <<coreVars, restVars>>

\* _extract_param_changes_from_diff at rest
ParamsIdle ==
    /\ arg_changed_lines = <<>>
    /\ arg_is_json = FALSE
    /\ param_changes = <<>>
    /\ tuple_idx = 0
    /\ ppc = "idle"

MaxRuns == 2

Runs == 1..MaxRuns

\* no comparison started from the comparison tab
RunnerIdle ==
    /\ started = 0
    /\ wpc = [k \in Runs |-> "none"]
    /\ exc_bound = [k \in Runs |-> FALSE]
    /\ after_queue = <<>>
    /\ completed = [k \in Runs |-> 0]
    /\ errored = [k \in Runs |-> 0]
    /\ callback_raised = [k \in Runs |-> 0]
    /\ storage = 0
    /\ status = ""

\* the comparator at rest, for the runs of the extractor alone
CompareIdle ==
    /\ original_file = None
    /\ modded_file = None
    /\ original_name = <<>>
    /\ modded_name = <<>>
    /\ context = 0
    /\ include_diff = FALSE
    /\ max_text_bytes = 0
    /\ pc = "idle"
    /\ orig_bytes = None
    /\ mod_bytes = None
    /\ modded_opened = FALSE
    /\ comparisons = <<>>
    /\ raised = FALSE

\* the extractor at rest, for the runs of the comparator
ExtractIdle ==
    /\ diff_str = <<>>
    /\ lines = <<>>
    /\ idx = 0
    /\ ext = ExtStart
    /\ xpc = "idle"

InitExtract ==
    /\ diff_str \in {JoinLines(ls) : ls \in SeqsUpTo(DiffLineCatalogue, MaxDiffLines)}
    /\ lines = <<>>
    /\ idx = 0
    /\ ext = ExtStart
    /\ xpc = "call"
    /\ CompareIdle
    /\ ParamsIdle
    /\ RunnerIdle

ExCall ==
    /\ xpc = "call"
    /\ lines' = SplitLines(diff_str)
    /\ xpc' = "loop"
    /\ UNCHANGED <<diff_str, idx, ext, fsVars, argVars, restVars, cmpVars>>

\* the for loop is at a line of the given kind
AtLine(kind) ==
    /\ xpc = "loop"
    /\ idx < Len(lines)
    /\ LineKind(lines[idx + 1]) = kind

ExHunkHeader ==
    /\ AtLine("hunk")
    /\ ext' = HunkHeaderStep(ext, lines[idx + 1])
    /\ idx' = idx + 1
    /\ UNCHANGED <<diff_str, lines, xpc, fsVars, argVars, restVars, cmpVars>>

ExFileHeader ==
    /\ AtLine("fileheader")
    /\ idx' = idx + 1
    /\ UNCHANGED <<diff_str, lines, ext, xpc, fsVars, argVars, restVars, cmpVars>>

ExBlank ==
    /\ AtLine("blank")
    /\ idx' = idx + 1
    /\ UNCHANGED <<diff_str, lines, ext, xpc, fsVars, argVars, restVars, cmpVars>>

ExMinus ==
    /\ AtLine("minus")
    /\ ext' = MinusStep(ext, lines[idx + 1])
    /\ idx' = idx + 1
    /\ UNCHANGED <<diff_str, lines, xpc, fsVars, argVars, restVars, cmpVars>>

ExPlus ==
    /\ AtLine("plus")
    /\ ext' = PlusStep(ext, lines[idx + 1])
    /\ idx' = idx + 1
    /\ UNCHANGED <<diff_str, lines, xpc, fsVars, argVars, restVars, cmpVars>>

ExContext ==
    /\ AtLine("context")
    /\ ext' = ContextStep(ext, lines[idx + 1])
    /\ idx' = idx + 1
    /\ UNCHANGED <<diff_str, lines, xpc, fsVars, argVars, restVars, cmpVars>>

ExReturn ==
    /\ xpc = "loop"
    /\ idx = Len(lines)
    /\ ext' = FlushPending(ext)
    /\ xpc' = "done"
    /\ UNCHANGED <<diff_str, lines, idx, fsVars, argVars, restVars, cmpVars>>

NextExtract ==
    \/ ExCall
    \/ ExHunkHeader
    \/ ExFileHeader
    \/ ExBlank
    \/ ExMinus
    \/ ExPlus
    \/ ExContext
    \/ ExReturn

SpecExtract == InitExtract /\ [][NextExtract]_vars

\* ------------------------------------------------------------------------
\* compare_plain_text_files, one action per step
\* ------------------------------------------------------------------------

Init ==
    /\ original_file \in {None} \cup {Some(f) : f \in FileCatalogue}
    /\ modded_file \in {None} \cup {Some(f) : f \in FileCatalogue}
    /\ original_name \in OriginalNames
    /\ modded_name \in ModdedNames
    /\ context \in ContextChoices
    /\ include_diff \in BOOLEAN
    /\ max_text_bytes \in MaxBytesChoices
    /\ pc = "open_original"
    /\ orig_bytes = None
    /\ mod_bytes = None
    /\ modded_opened = FALSE
    /\ comparisons = <<>>
    /\ raised = FALSE
    /\ ExtractIdle
    /\ ParamsIdle
    /\ RunnerIdle

\* open(original_path, "rb") and f.read() succeed
ReadOriginal ==
    /\ pc = "open_original"
    /\ ~IsNone(original_file)
    /\ orig_bytes' = original_file
    /\ pc' = "open_modded"
    /\ UNCHANGED <<mod_bytes, modded_opened, comparisons, raised, exVars, fsVars, argVars, restVars>>

\* the failed read of original_path followed by an attempt on modded_path
ReadOriginalFailsThenOpensModded ==
    /\ pc = "open_original"
    /\ IsNone(original_file)
    /\ modded_opened' = TRUE
    /\ pc' = "done"
    /\ UNCHANGED <<orig_bytes, mod_bytes, comparisons, raised, exVars, fsVars, argVars, restVars>>

\* the read of original_path ends in IOError or OSError: return comparisons
ReadOriginalFails ==
    /\ pc = "open_original"
    /\ IsNone(original_file)
    /\ pc' = "done"
    /\ UNCHANGED <<orig_bytes, mod_bytes, modded_opened, comparisons, raised,
                   exVars, fsVars, argVars, restVars>>

\* open(modded_path, "rb") and f.read() succeed
ReadModded ==
    /\ pc = "open_modded"
    /\ ~IsNone(modded_file)
    /\ mod_bytes' = modded_file
    /\ modded_opened' = TRUE
    /\ pc' = "compare"
    /\ UNCHANGED <<orig_bytes, comparisons, raised, exVars, fsVars, argVars, restVars>>

\* the read of modded_path ends in IOError or OSError
ReadModdedFails ==
    /\ pc = "open_modded"
    /\ IsNone(modded_file)
    /\ modded_opened' = TRUE
    /\ comparisons' = comparisons \o ModdedUnreadableResult(original_name, Val(orig_bytes))
    /\ pc' = "done"
    /\ UNCHANGED <<orig_bytes, mod_bytes, raised, exVars, fsVars, argVars, restVars>>

\* if orig_bytes == mod_bytes: return comparisons
ReturnIdentical ==
    /\ pc = "compare"
    /\ Identical(Val(orig_bytes), Val(mod_bytes))
    /\ pc' = "done"
    /\ UNCHANGED <<orig_bytes, mod_bytes, modded_opened, comparisons, raised,
                   exVars, fsVars, argVars, restVars>>

\* the else branch: a side is not text
CompareBinary ==
    /\ pc = "compare"
    /\ ~Identical(Val(orig_bytes), Val(mod_bytes))
    /\ ~BothText(Val(orig_bytes), Val(mod_bytes))
    /\ comparisons' = Append(comparisons, BinaryDiff(original_name))
    /\ pc' = "done"
    /\ UNCHANGED <<orig_bytes, mod_bytes, modded_opened, raised, exVars, fsVars, argVars, restVars>>

\* both sides are text and the text branch is entered
AtTextBranch ==
    /\ pc = "compare"
    /\ ~Identical(Val(orig_bytes), Val(mod_bytes))
    /\ BothText(Val(orig_bytes), Val(mod_bytes))

\* the text branch with include_diff false
CompareTextNoDiff ==
    /\ AtTextBranch
    /\ ~include_diff
    /\ comparisons' = Append(comparisons, NoDiffResult(original_name))
    /\ pc' = "done"
    /\ UNCHANGED <<orig_bytes, mod_bytes, modded_opened, raised, exVars, fsVars, argVars, restVars>>

\* the text branch with the diff computed
CompareTextDiff ==
    /\ AtTextBranch
    /\ include_diff
    /\ WithinLimit(Val(orig_bytes), Val(mod_bytes), max_text_bytes)
    /\ comparisons' = Append(comparisons,
           DiffResult(original_name, modded_name, Val(orig_bytes), Val(mod_bytes), context))
    /\ pc' = "done"
    /\ UNCHANGED <<orig_bytes, mod_bytes, modded_opened, raised, exVars, fsVars, argVars, restVars>>

\* the text branch with a side above max_text_bytes
CompareTextTruncated ==
    /\ AtTextBranch
    /\ include_diff
    /\ ~WithinLimit(Val(orig_bytes), Val(mod_bytes), max_text_bytes)
    /\ comparisons' = Append(comparisons,
           TruncatedResult(original_name, Val(orig_bytes), Val(mod_bytes)))
    /\ pc' = "done"
    /\ UNCHANGED <<orig_bytes, mod_bytes, modded_opened, raised, exVars, fsVars, argVars, restVars>>

Next ==
    \/ ReadOriginal
    \/ ReadOriginalFails
    \/ ReadModded
    \/ ReadModdedFails
    \/ ReturnIdentical
    \/ CompareBinary
    \/ CompareTextNoDiff
    \/ CompareTextDiff
    \/ CompareTextTruncated

Spec == Init /\ [][Next]_vars

\* ------------------------------------------------------------------------
\* _extract_param_changes_from_diff, one action per tuple of changed_lines
\* ------------------------------------------------------------------------

MaxTuples == 2

\* the lines the tuples are made of
TupleLineCatalogue ==
    { <<32, 32, 34, 97, 34, 58, 32, 49, 44>>,          \* '  "a": 1,'
      <<32, 32, 34, 97, 34, 58, 32, 50>>,              \* '  "a": 2'
      <<32, 32, 34, 98, 34, 58, 32, 50>>,              \* '  "b": 2'
      <<83, 112, 101, 101, 100, 40, 49, 48, 41, 59>>,  \* 'Speed(10);'
      <<72, 112, 61, 53>>,                             \* 'Hp=5'
      <<72, 112, 32, 61, 32, 54>> }                    \* 'Hp = 6'

\* the tuples _extract_changed_lines can hand over: a line or None on each
\* side, not None on both, a line number where there is a line
TupleCatalogue ==
    { <<o, n, IF IsNone(o) THEN None ELSE Some(1), IF IsNone(n) THEN None ELSE Some(1)>> :
        o \in {None} \cup {Some(l) : l \in TupleLineCatalogue},
        n \in {None} \cup {Some(l) : l \in TupleLineCatalogue} }
    \ { <<None, None, None, None>> }

InitParams ==
    /\ arg_changed_lines \in SeqsUpTo(TupleCatalogue, MaxTuples)
    /\ arg_is_json \in BOOLEAN
    /\ param_changes = <<>>
    /\ tuple_idx = 0
    /\ ppc = "loop"
    /\ CompareIdle
    /\ ExtractIdle
    /\ RunnerIdle

\* the for loop is at a tuple
AtTuple ==
    /\ ppc = "loop"
    /\ tuple_idx < Len(arg_changed_lines)

\* one iteration of the loop of _extract_json_key_changes
JsonKeyTuple ==
    /\ AtTuple
    /\ arg_is_json
    /\ param_changes' = param_changes \o
           ClassifySides(JsonSide(arg_changed_lines[tuple_idx + 1][1]),
                         JsonSide(arg_changed_lines[tuple_idx + 1][2]))
    /\ tuple_idx' = tuple_idx + 1
    /\ UNCHANGED <<arg_changed_lines, arg_is_json, ppc, coreVars, uiVars>>

\* one iteration of the loop of the generic mode
GenericTuple ==
    /\ AtTuple
    /\ ~arg_is_json
    /\ param_changes' = param_changes \o
           ClassifySides(GenericSide(arg_changed_lines[tuple_idx + 1][1]),
                         GenericSide(arg_changed_lines[tuple_idx + 1][2]))
    /\ tuple_idx' = tuple_idx + 1
    /\ UNCHANGED <<arg_changed_lines, arg_is_json, ppc, coreVars, uiVars>>

\* return param_changes
ParamsReturn ==
    /\ ppc = "loop"
    /\ tuple_idx = Len(arg_changed_lines)
    /\ ppc' = "done"
    /\ UNCHANGED <<arg_changed_lines, arg_is_json, param_changes, tuple_idx, coreVars, uiVars>>

NextParams ==
    \/ JsonKeyTuple
    \/ GenericTuple
    \/ ParamsReturn

SpecParams == InitParams /\ [][NextParams]_vars

\* ------------------------------------------------------------------------
\* handle_compare and run_comparison: the UI thread, the worker threads and
\* the callbacks scheduled with app.after
\* ------------------------------------------------------------------------

InitUi ==
    /\ RunnerIdle
    /\ CompareIdle
    /\ ExtractIdle
    /\ ParamsIdle

\* handle_compare returns early: a path is missing or not found
HandleCompareRejected ==
    /\ status' = "rejected"
    /\ UNCHANGED <<started, wpc, exc_bound, after_queue, completed, errored,
                   callback_raised, storage, coreVars, prmVars>>

\* handle_compare reaches run_comparison, which starts the worker thread
HandleCompare ==
    /\ started < MaxRuns
    /\ started' = started + 1
    /\ status' = "comparing"
    /\ wpc' = [wpc EXCEPT ![started + 1] = "try"]
    /\ UNCHANGED <<exc_bound, after_queue, completed, errored, callback_raised, storage,
                   coreVars, prmVars>>

\* the worker's try block runs to its end: compare_plain_text_files returns
\* and app.after schedules on_complete
WorkerReturns(k) ==
    /\ wpc[k] = "try"
    /\ after_queue' = Append(after_queue, <<k, "on_complete">>)
    /\ wpc' = [wpc EXCEPT ![k] = "ended"]
    /\ UNCHANGED <<started, exc_bound, completed, errored, callback_raised, storage, status,
                   coreVars, prmVars>>

\* an exception leaves the try block: except Exception as exc
WorkerRaises(k) ==
    /\ wpc[k] = "try"
    /\ exc_bound' = [exc_bound EXCEPT ![k] = TRUE]
    /\ wpc' = [wpc EXCEPT ![k] = "except"]
    /\ UNCHANGED <<started, after_queue, completed, errored, callback_raised, storage, status,
                   coreVars, prmVars>>

\* app.after(0, lambda: on_error(str(exc)))
WorkerSchedulesError(k) ==
    /\ wpc[k] = "except"
    /\ after_queue' = Append(after_queue, <<k, "on_error">>)
    /\ wpc' = [wpc EXCEPT ![k] = "leaving"]
    /\ UNCHANGED <<started, exc_bound, completed, errored, callback_raised, storage, status,
                   coreVars, prmVars>>

\* the except block ends: exc is deleted and the thread ends
WorkerLeavesHandler(k) ==
    /\ wpc[k] = "leaving"
    /\ exc_bound' = [exc_bound EXCEPT ![k] = FALSE]
    /\ wpc' = [wpc EXCEPT ![k] = "ended"]
    /\ UNCHANGED <<started, after_queue, completed, errored, callback_raised, storage, status,
                   coreVars, prmVars>>

\* the UI thread runs the oldest scheduled callback, of the given run and kind
AtCallback(k, kind) ==
    /\ after_queue # <<>>
    /\ Head(after_queue) = <<k, kind>>

\* lambda: on_complete(file_comparisons, summary)
UiRunsOnComplete(k) ==
    /\ AtCallback(k, "on_complete")
    /\ after_queue' = Tail(after_queue)
    /\ completed' = [completed EXCEPT ![k] = @ + 1]
    /\ storage' = k
    /\ status' = "complete"
    /\ UNCHANGED <<started, wpc, exc_bound, errored, callback_raised, coreVars, prmVars>>

\* lambda: on_error(str(exc)) while exc is bound
UiRunsOnError(k) ==
    /\ AtCallback(k, "on_error")
    /\ exc_bound[k]
    /\ after_queue' = Tail(after_queue)
    /\ errored' = [errored EXCEPT ![k] = @ + 1]
    /\ status' = "failed"
    /\ UNCHANGED <<started, wpc, exc_bound, completed, callback_raised, storage,
                   coreVars, prmVars>>

\* lambda: on_error(str(exc)) after exc was deleted: the lambda raises NameError
UiOnErrorLambdaRaises(k) ==
    /\ AtCallback(k, "on_error")
    /\ ~exc_bound[k]
    /\ after_queue' = Tail(after_queue)
    /\ callback_raised' = [callback_raised EXCEPT ![k] = @ + 1]
    /\ UNCHANGED <<started, wpc, exc_bound, completed, errored, storage, status,
                   coreVars, prmVars>>

NextUi ==
    \/ HandleCompareRejected
    \/ HandleCompare
    \/ \E k \in Runs : WorkerReturns(k)
    \/ \E k \in Runs : WorkerRaises(k)
    \/ \E k \in Runs : WorkerSchedulesError(k)
    \/ \E k \in Runs : WorkerLeavesHandler(k)
    \/ \E k \in Runs : UiRunsOnComplete(k)
    \/ \E k \in Runs : UiRunsOnError(k)
    \/ \E k \in Runs : UiOnErrorLambdaRaises(k)

SpecUi == InitUi /\ [][NextUi]_vars


\* ------------------------------------------------------------------------
\* Changed-line coverage (C1, C2)
\* ------------------------------------------------------------------------

RECURSIVE BagOfSeq(_)
BagOfSeq(s) ==
    IF s = <<>> THEN EmptyBag ELSE SetToBag({Head(s)}) (+) BagOfSeq(Tail(s))

RECURSIVE OldLines(_)
\* the non-null oldLine values of a list of tuples, in order
OldLines(ch) ==
    IF ch = <<>> THEN <<>>
    ELSE (IF IsNone(Head(ch)[1]) THEN <<>> ELSE <<Val(Head(ch)[1])>>) \o OldLines(Tail(ch))

RECURSIVE NewLines(_)
\* the non-null newLine values of a list of tuples, in order
NewLines(ch) ==
    IF ch = <<>> THEN <<>>
    ELSE (IF IsNone(Head(ch)[2]) THEN <<>> ELSE <<Val(Head(ch)[2])>>) \o NewLines(Tail(ch))

\* a diff line that starts with the character c but not with c twice
BodyLineOf(l, c) == Len(l) >= 1 /\ l[1] = c /\ ~(Len(l) >= 2 /\ l[2] = c)

RECURSIVE BodyContents(_, _)
\* the contents of the body lines of ls that carry the prefix c
BodyContents(ls, c) ==
    IF ls = <<>> THEN <<>>
    ELSE (IF BodyLineOf(Head(ls), c) THEN <<Tail(Head(ls))>> ELSE <<>>)
         \o BodyContents(Tail(ls), c)

\* an invalid hunk header directly followed by a '+' body line
PlusAfterInvalidHeader ==
    \E i \in 1..(Len(lines) - 1) :
        /\ StartsWith(lines[i], <<64, 64>>)
        /\ lines[i] # <<64, 64, 32, 45, 51, 44, 50, 32, 43, 53, 32, 64, 64>>
        /\ BodyLineOf(lines[i + 1], 43)

\* a hunk header line that sets both counters
ValidHeaderLine(l) ==
    /\ StartsWith(l, <<64, 64>>)
    /\ ~IsNone(HeaderSearch(l))
    /\ HeaderStartsValid(Val(HeaderSearch(l)))

\* the diff text opens with a hunk header and all its hunk headers are valid
AllHeadersValid(ls) ==
    /\ ls # <<>>
    /\ ValidHeaderLine(ls[1])
    /\ \A i \in DOMAIN ls : StartsWith(ls[i], <<64, 64>>) => ValidHeaderLine(ls[i])

\* C1: when extractChangedLines has returned, the multiset of the non-null
\* oldLine values of its tuples is the multiset of the contents of the '-'
\* body lines of the diff text: no removed line is dropped or duplicated
\* (stated here for diff texts all of whose hunk headers are valid).
C1_RemovalCoverage ==
    (xpc = "done" /\ AllHeadersValid(SplitLines(diff_str))) =>
        BagOfSeq(OldLines(ext.changes)) = BagOfSeq(BodyContents(SplitLines(diff_str), 45))

Returned == pc = "done"

\* both files could be read
BothReadable == ~IsNone(original_file) /\ ~IsNone(modded_file)

\* both files could be read and their bytes differ
DifferingPair == BothReadable /\ original_file # modded_file

\* both files could be read, their bytes differ and both pass _is_text
DifferingTextPair ==
    /\ DifferingPair
    /\ IsText(Val(original_file))
    /\ IsText(Val(modded_file))

\* C3: when both files hold the same bytes the call returns the empty list
\* and raises nothing, whatever the context, include_diff, max_text_bytes,
\* the file name and the content, text or binary.
C3_Identity ==
    (Returned /\ BothReadable /\ original_file = modded_file) =>
        comparisons = <<>> /\ ~raised

\* C3 witness: the call has returned for two identical binary files under a
\* JSON file name with include_diff set
C3_Witness ==
    /\ Returned
    /\ BothReadable
    /\ original_file = modded_file
    /\ ~IsText(Val(original_file))
    /\ Lower(Suffix(original_name)) \in JsonLikeSuffixes
    /\ include_diff
    /\ modded_opened

\* C4: when the original file is read and the read of the modified file
\* fails, the call returns exactly one result of kind "removed" with diff
\* null and raises nothing, for text and for binary original content.
C4_ModifiedUnreadableIsRemoved ==
    (Returned /\ ~IsNone(original_file) /\ IsNone(modded_file)) =>
        /\ Len(comparisons) = 1
        /\ comparisons[1].kind = "removed"
        /\ IsNone(comparisons[1].diff)
        /\ ~raised

\* C5: when the original file cannot be read the call does not return
\* normally: an error reaches the caller.
C5_OriginalUnreadableRaises ==
    (Returned /\ IsNone(original_file)) => raised

\* C6: when the original file cannot be read the call returns the empty list,
\* has made no attempt to read the modified file and raises nothing, whether
\* the modified file is readable or not.
C6_OriginalUnreadableEmpty ==
    (Returned /\ IsNone(original_file)) =>
        /\ comparisons = <<>>
        /\ ~modded_opened
        /\ IsNone(mod_bytes)
        /\ ~raised

\* C6 witness: the call has returned for an unreadable original file while
\* the modified file is readable and differs from nothing read so far
C6_Witness ==
    /\ Returned
    /\ IsNone(original_file)
    /\ ~IsNone(modded_file)
    /\ IsText(Val(modded_file))
    /\ comparisons = <<>>

\* C7: for two readable files with different bytes the call returns exactly
\* one result; its kind is "modified-text" exactly when both sides pass
\* _is_text and "modified-binary" exactly when a side fails it, and a
\* "modified-binary" result has diff, changed_lines and param_changes null
\* and diff_truncated false.
C7_KindFollowsClassifier ==
    (Returned /\ DifferingPair) =>
        /\ Len(comparisons) = 1
        /\ comparisons[1].kind = "modified-text" <=>
               (IsText(Val(original_file)) /\ IsText(Val(modded_file)))
        /\ comparisons[1].kind = "modified-binary" <=>
               (~IsText(Val(original_file)) \/ ~IsText(Val(modded_file)))
        /\ comparisons[1].kind = "modified-binary" =>
               /\ IsNone(comparisons[1].diff)
               /\ IsNone(comparisons[1].changed_lines)
               /\ IsNone(comparisons[1].param_changes)
               /\ ~comparisons[1].diff_truncated

\* C7 witness: a "modified-binary" result for a text original and a modified
\* file that fails _is_text by invalid UTF-8 alone, with include_diff set
C7_Witness ==
    /\ Returned
    /\ DifferingPair
    /\ IsText(Val(original_file))
    /\ ~IsText(Val(modded_file))
    /\ \A i \in DOMAIN Val(modded_file) : Val(modded_file)[i] # 0
    /\ include_diff
    /\ Len(comparisons) = 1
    /\ comparisons[1].kind = "modified-binary"

\* C8: for a differing text pair with include_diff true, when both byte
\* lengths are at most max_text_bytes the result has diff_truncated false
\* with diff and changed_lines present, and when a length is above it the
\* result has diff_truncated true with diff and changed_lines null; every
\* result with diff_truncated true has diff and changed_lines null.
C8_TruncationBySize ==
    /\ \A i \in DOMAIN comparisons :
           comparisons[i].diff_truncated =>
               IsNone(comparisons[i].diff) /\ IsNone(comparisons[i].changed_lines)
    /\ (Returned /\ DifferingTextPair /\ include_diff) =>
           /\ Len(comparisons) = 1
           /\ IF /\ Len(Val(original_file)) <= max_text_bytes
                 /\ Len(Val(modded_file)) <= max_text_bytes
              THEN /\ ~comparisons[1].diff_truncated
                   /\ ~IsNone(comparisons[1].diff)
                   /\ ~IsNone(comparisons[1].changed_lines)
              ELSE /\ comparisons[1].diff_truncated
                   /\ IsNone(comparisons[1].diff)
                   /\ IsNone(comparisons[1].changed_lines)

\* C8 witness: a result with the diff computed for two files whose byte
\* lengths both equal max_text_bytes
C8_Witness ==
    /\ Returned
    /\ DifferingTextPair
    /\ include_diff
    /\ Len(Val(original_file)) = max_text_bytes
    /\ Len(Val(modded_file)) = max_text_bytes
    /\ Len(comparisons) = 1
    /\ ~comparisons[1].diff_truncated
    /\ Val(comparisons[1].changed_lines) # <<>>

\* the parameter a line contributes to the map of _parse_params, if any
LineParam(line) == ParseParams(<<line>>)

\* the names that some line of ls contributes
NamesIn(ls) == {LineParam(ls[i])[1][1] : i \in {j \in DOMAIN ls : LineParam(ls[j]) # <<>>}}

\* the value of the last line of ls that contributes the name n
LastValue(ls, n) ==
    LET at == {i \in DOMAIN ls : LineParam(ls[i]) # <<>> /\ LineParam(ls[i])[1][1] = n}
    IN  LineParam(ls[CHOOSE i \in at : \A o \in at : o <= i])[1][2]

\* the names the fallback has to report for the line lists old and new
ChangedNames(old, new) ==
    {n \in NamesIn(old) \cap NamesIn(new) : LastValue(old, n) # LastValue(new, n)}

\* param_changes as a list, null read as the empty list
ReportedChanges == IF IsNone(comparisons[1].param_changes) THEN <<>>
                   ELSE Val(comparisons[1].param_changes)

\* the lines of the original the comparison works on
ComparedOld == OrigText(original_name, Val(original_file), Val(modded_file))

\* the lines of the modified file the comparison works on
ComparedNew == ModText(original_name, Val(original_file), Val(modded_file))

\* C9: in a truncated result param_changes holds exactly one triple
\* (n, lastOld(n), lastNew(n)) for each name n that lines of both compared
\* texts contribute with different last values, lastOld and lastNew being
\* the values of the last contributing line of each text; a name that only
\* one text contributes yields no triple and no name is reported twice
\* (null stands for no triple at all).
C9_FallbackParamChanges ==
    (Returned /\ Len(comparisons) = 1 /\ comparisons[1].diff_truncated) =>
        /\ \A i \in DOMAIN ReportedChanges :
               /\ ReportedChanges[i][1] \in ChangedNames(ComparedOld, ComparedNew)
               /\ ReportedChanges[i][2] = LastValue(ComparedOld, ReportedChanges[i][1])
               /\ ReportedChanges[i][3] = LastValue(ComparedNew, ReportedChanges[i][1])
        /\ \A n \in ChangedNames(ComparedOld, ComparedNew) :
               Cardinality({i \in DOMAIN ReportedChanges : ReportedChanges[i][1] = n}) = 1
        /\ \A i, j \in DOMAIN ReportedChanges :
               ReportedChanges[i][1] = ReportedChanges[j][1] => i = j

\* C9 witness: a truncated result with one triple, for an original that
\* contributes a name the modified file lacks and a modified file that
\* contributes the reported name on two lines with different values
C9_Witness ==
    /\ Returned
    /\ Len(comparisons) = 1
    /\ comparisons[1].diff_truncated
    /\ Len(ReportedChanges) = 1
    /\ NamesIn(ComparedOld) \ NamesIn(ComparedNew) # {}
    /\ \E i, j \in DOMAIN ComparedNew :
           /\ i < j
           /\ LineParam(ComparedNew[i]) # <<>>
           /\ LineParam(ComparedNew[j]) # <<>>
           /\ LineParam(ComparedNew[i])[1][1] = ReportedChanges[1][1]
           /\ LineParam(ComparedNew[j])[1][1] = ReportedChanges[1][1]
           /\ LineParam(ComparedNew[i])[1][2] # LineParam(ComparedNew[j])[1][2]

\* C10: for a differing text pair with include_diff false the call returns
\* exactly one "modified-text" result with diff, changed_lines and
\* param_changes null and diff_truncated false, whatever the byte lengths
\* are against max_text_bytes.
C10_NoDiffRequested ==
    (Returned /\ DifferingTextPair /\ ~include_diff) =>
        /\ Len(comparisons) = 1
        /\ comparisons[1].kind = "modified-text"
        /\ IsNone(comparisons[1].diff)
        /\ IsNone(comparisons[1].changed_lines)
        /\ IsNone(comparisons[1].param_changes)
        /\ ~comparisons[1].diff_truncated

\* C10 witness: such a result for two files above max_text_bytes whose
\* parameter maps differ
C10_Witness ==
    /\ Returned
    /\ DifferingTextPair
    /\ ~include_diff
    /\ Len(Val(original_file)) > max_text_bytes
    /\ Len(Val(modded_file)) > max_text_bytes
    /\ ChangedNames(ComparedOld, ComparedNew) # {}
    /\ Len(comparisons) = 1
    /\ IsNone(comparisons[1].param_changes)

\* C11: a call with max_text_bytes <= 0 does not return a comparison result:
\* an error reaches the caller.
C11_NonPositiveLimitRaises ==
    (Returned /\ DifferingTextPair /\ include_diff /\ max_text_bytes <= 0) =>
        raised /\ comparisons = <<>>

\* ------------------------------------------------------------------------
\* Properties of the tuples of _extract_changed_lines
\* ------------------------------------------------------------------------

\* a tuple with new_line only: a pure insertion
IsInsertion(t) == IsNone(t[1]) /\ ~IsNone(t[2])

\* a tuple with old_line only: a pure deletion
IsDeletion(t) == ~IsNone(t[1]) /\ IsNone(t[2])

\* a tuple with old_line and new_line: a paired replacement
IsPaired(t) == ~IsNone(t[1]) /\ ~IsNone(t[2])

\* C12: every tuple recorded by extractChangedLines has old_line or new_line
\* non-null; a tuple without old_line has no old line number and a tuple
\* without new_line has no new line number, so that only a paired
\* replacement carries both lines.
C12_TupleShape ==
    \A i \in DOMAIN ext.changes :
        /\ IsInsertion(ext.changes[i]) \/ IsDeletion(ext.changes[i]) \/ IsPaired(ext.changes[i])
        /\ IsInsertion(ext.changes[i]) => IsNone(ext.changes[i][3])
        /\ IsDeletion(ext.changes[i]) => IsNone(ext.changes[i][4])

\* C12 witness: the extractor has returned a pure deletion that was flushed
\* while the new-side counter was set, followed by a numbered pure insertion
C12_Witness ==
    /\ xpc = "done"
    /\ Len(ext.changes) = 2
    /\ IsDeletion(ext.changes[1])
    /\ ~IsNone(ext.changes[1][3])
    /\ IsInsertion(ext.changes[2])
    /\ ~IsNone(ext.changes[2][4])

\* ------------------------------------------------------------------------
\* Properties of the text branch of compare_plain_text_files
\* ------------------------------------------------------------------------

\* json.loads accepts the text
ParsesAsJson(content) == JsonLoads(content).ok

\* the original's extension is JSON-like and both decoded files parse as JSON
JsonGateHolds ==
    /\ Lower(Suffix(original_name)) \in JsonLikeSuffixes
    /\ ParsesAsJson(DecodeText(Val(original_file)))
    /\ ParsesAsJson(DecodeText(Val(modded_file)))

\* the unified diff text of two contents under the names and context of the call
DiffOfContents(old, new) ==
    JoinLines(UnifiedDiff(SplitLines(old), SplitLines(new),
                          <<111, 114, 105, 103, 105, 110, 97, 108, 47>> \o original_name,
                          <<109, 111, 100, 100, 101, 100, 47>> \o modded_name,
                          context))

\* the call has returned the result of the diff branch
DiffComputed ==
    /\ Returned
    /\ DifferingTextPair
    /\ include_diff
    /\ Len(Val(original_file)) <= max_text_bytes
    /\ Len(Val(modded_file)) <= max_text_bytes

\* the triples the extraction gives for the changed lines of the result in
\* JSON mode (is_json true) or generic mode, null when there is none
ParamChangesInMode(is_json) ==
    IF Val(comparisons[1].changed_lines) = <<>> THEN None
    ELSE OrNone(ExtractParamChangesFromDiff(Val(comparisons[1].changed_lines), is_json))

\* C13: the diff is that of the two normalized JSON texts and the parameter
\* changes are extracted in JSON mode exactly when the original's extension
\* is .json, .gui or .cfg and both sides parse as JSON; in every other case
\* the diff is that of the two raw decoded texts and the extraction is
\* generic, so that never one side is normalized and the other raw.
C13_JsonGating ==
    DiffComputed =>
        IF JsonGateHolds
        THEN /\ comparisons[1].diff =
                    Some(DiffOfContents(Val(NormalizeJson(DecodeText(Val(original_file)))),
                                        Val(NormalizeJson(DecodeText(Val(modded_file))))))
             /\ comparisons[1].param_changes = ParamChangesInMode(TRUE)
        ELSE /\ comparisons[1].diff =
                    Some(DiffOfContents(DecodeText(Val(original_file)),
                                        DecodeText(Val(modded_file))))
             /\ comparisons[1].param_changes = ParamChangesInMode(FALSE)

\* C13 witness: a result for two minified JSON files under a JSON-like name
\* whose parameter changes exist in JSON mode and would not in generic mode
C13_Witness ==
    /\ DiffComputed
    /\ JsonGateHolds
    /\ NormalizeJson(DecodeText(Val(original_file))) # Some(DecodeText(Val(original_file)))
    /\ ~IsNone(comparisons[1].param_changes)
    /\ IsNone(ParamChangesInMode(FALSE))

\* the triples the tuple t contributes on its own, in the mode of the call
TriplesOfTuple(t) == ExtractParamChangesFromDiff(<<t>>, JsonGateHolds)

\* the positions of the changed lines of the result that contribute a triple
ContributingTuples ==
    {k \in DOMAIN Val(comparisons[1].changed_lines) :
        TriplesOfTuple(Val(comparisons[1].changed_lines)[k]) # <<>>}

\* the r-th contributing position, in the order of changed_lines
ContributingTuple(r) ==
    CHOOSE k \in ContributingTuples :
        Cardinality({j \in ContributingTuples : j <= k}) = r

\* C14: on the diff branch every changed-lines tuple contributes at most one
\* triple, and param_changes is the list of these triples in the order of
\* their tuples, one per contributing tuple: two tuples that change the same
\* name give two triples (null stands for the empty list).
C14_OrderAndOccurrences ==
    DiffComputed =>
        /\ \A k \in DOMAIN Val(comparisons[1].changed_lines) :
               Len(TriplesOfTuple(Val(comparisons[1].changed_lines)[k])) <= 1
        /\ Len(ReportedChanges) = Cardinality(ContributingTuples)
        /\ \A r \in DOMAIN ReportedChanges :
               ReportedChanges[r] =
                   TriplesOfTuple(Val(comparisons[1].changed_lines)[ContributingTuple(r)])[1]

\* C14 witness: a result whose param_changes holds two triples with the same
\* name, from two different tuples
C14_Witness ==
    /\ DiffComputed
    /\ Len(ReportedChanges) = 2
    /\ ReportedChanges[1][1] = ReportedChanges[2][1]
    /\ Cardinality(ContributingTuples) = 2

\* the lines of the original file as decoded
OriginalLines == SplitLines(DecodeText(Val(original_file)))

\* the lines of the modified file as decoded
ModifiedLines == SplitLines(DecodeText(Val(modded_file)))

\* the modified file is the original of n >= 1 lines plus one appended line
OneLineAppended ==
    /\ Len(OriginalLines) >= 1
    /\ Len(ModifiedLines) = Len(OriginalLines) + 1
    /\ SubSeq(ModifiedLines, 1, Len(OriginalLines)) = OriginalLines

\* the appended line
AppendedLine == ModifiedLines[Len(ModifiedLines)]

\* C15: when the modified file is the original of n >= 1 lines plus one
\* appended line L, both sizes within max_text_bytes, the diff branch gives
\* changed_lines = [(null, L, null, n + 1)] for every context, and for an L
\* of the form Param("K", V); param_changes = [(K, "", V)].
C15_AppendedLine ==
    (DiffComputed /\ ~JsonGateHolds /\ OneLineAppended) =>
        /\ comparisons[1].changed_lines =
               Some(<<<<None, Some(AppendedLine), None, Some(Len(OriginalLines) + 1)>>>>)
        /\ ~IsNone(ParamSearch(AppendedLine)) =>
               comparisons[1].param_changes =
                   Some(<<<<Val(ParamSearch(AppendedLine)).name, <<>>,
                            StripQuotes(Strip(Val(ParamSearch(AppendedLine)).value))>>>>)

\* ------------------------------------------------------------------------
\* Properties of the runs and hunks _extract_changed_lines walks through.
\* Lines are classified as the loop classifies them; the position i is that
\* of a line in diff_str.splitlines().
\* ------------------------------------------------------------------------

\* the position of the last hunk header before line i (0: none)
LastHeaderBefore(i) ==
    LET hs == {h \in 1..(i - 1) : IsHunkHeader(lines[h])}
    IN  IF hs = {} THEN 0 ELSE CHOOSE h \in hs : \A o \in hs : o <= h

\* line i lies in a hunk whose header is valid
InValidHunk(i) ==
    LastHeaderBefore(i) > 0 /\ ValidHeaderLine(lines[LastHeaderBefore(i)])

\* line i lies in a hunk whose header is not valid
InInvalidHunk(i) ==
    LastHeaderBefore(i) > 0 /\ ~ValidHeaderLine(lines[LastHeaderBefore(i)])

\* the old-side number of line i of a valid hunk: the old start of the header
\* plus the '-' and context lines of the hunk before i
OldNumberAt(i) ==
    Val(HeaderSearch(lines[LastHeaderBefore(i)])).old_start
    + Cardinality({j \in (LastHeaderBefore(i) + 1)..(i - 1) :
                      LineKind(lines[j]) \in {"minus", "context"}})

\* the new-side number of line i of a valid hunk: the new start of the header
\* plus the '+' and context lines of the hunk before i
NewNumberAt(i) ==
    Val(HeaderSearch(lines[LastHeaderBefore(i)])).new_start
    + Cardinality({j \in (LastHeaderBefore(i) + 1)..(i - 1) :
                      LineKind(lines[j]) \in {"plus", "context"}})

\* the unpaired removal tuple of the '-' line i
RemovalOf(i) == <<Some(Tail(lines[i])), None, Some(OldNumberAt(i)), None>>

\* the tuple t is among those returned
Returns(t) == \E k \in DOMAIN ext.changes : ext.changes[k] = t

\* C16: when the extractor has returned, every '-' line of a valid hunk that
\* is directly followed by another '-' line has its own unpaired removal
\* tuple (content, null, its old line number, null) in the output.
C16_EarlierMinusFlushed ==
    xpc = "done" =>
        \A i \in 1..(Len(lines) - 1) :
            (InValidHunk(i) /\ IsMinusLine(lines[i]) /\ IsMinusLine(lines[i + 1])) =>
                Returns(RemovalOf(i))

\* the tuple the step has appended
Appended == ext'.changes[Len(ext'.changes)]

\* C17: in a valid hunk a '+' line that directly follows a '-' line appends
\* exactly one tuple, the pair of that '-' line (the last of its run) and the
\* '+' line with the old number of the one and the new number of the other;
\* a '+' line that directly follows a '+' line appends exactly one unpaired
\* addition with its new number.
C17_PairingBias ==
    [][(ExPlus /\ InValidHunk(idx + 1) /\ idx >= 1) =>
          /\ IsMinusLine(lines[idx]) =>
                 ext'.changes = Append(ext.changes,
                     <<Some(Tail(lines[idx])), Some(Tail(lines[idx + 1])),
                       Some(OldNumberAt(idx)), Some(NewNumberAt(idx + 1))>>)
          /\ IsPlusLine(lines[idx]) =>
                 ext'.changes = Append(ext.changes,
                     <<None, Some(Tail(lines[idx + 1])), None, Some(NewNumberAt(idx + 1))>>)
      ]_vars

\* C17 witness: the extractor has returned for a valid hunk of two '-' lines
\* followed by a '+' line: one pair, built from the second '-' line
C17_Witness ==
    /\ xpc = "done"
    /\ Len(lines) >= 4
    /\ ValidHeaderLine(lines[1])
    /\ IsMinusLine(lines[2])
    /\ IsMinusLine(lines[3])
    /\ lines[2] # lines[3]
    /\ IsPlusLine(lines[4])
    /\ Returns(<<Some(Tail(lines[3])), Some(Tail(lines[4])),
                 Some(OldNumberAt(3)), Some(NewNumberAt(4))>>)

\* the position of the last '-' line at or before line i (0: none)
LastMinusUpTo(i) ==
    LET ms == {p \in 1..i : IsMinusLine(lines[p])}
    IN  IF ms = {} THEN 0 ELSE CHOOSE p \in ms : \A o \in ms : o <= p

\* C18: whenever a '+' line appends a tuple with old_line and new_line both
\* set, the old_line is the content of the last '-' line before it and no
\* '@@' hunk header lies between that '-' line and the '+' line.
C18_NoPairingAcrossHunks ==
    [][(ExPlus /\ IsPaired(Appended)) =>
          /\ LastMinusUpTo(idx) > 0
          /\ Appended[1] = Some(Tail(lines[LastMinusUpTo(idx)]))
          /\ \A q \in LastMinusUpTo(idx)..(idx + 1) : ~IsHunkHeader(lines[q])
      ]_vars

\* C18 witness: the extractor has returned for a '-' line of a valid hunk, a
\* valid hunk header and a '+' line, and the '+' line was reported unpaired
C18_Witness ==
    /\ xpc = "done"
    /\ Len(lines) = 4
    /\ ValidHeaderLine(lines[1])
    /\ IsMinusLine(lines[2])
    /\ ValidHeaderLine(lines[3])
    /\ IsPlusLine(lines[4])
    /\ Returns(<<None, Some(Tail(lines[4])), None, Some(NewNumberAt(4))>>)

\* C19: when the extractor has returned, every '-' line of a valid hunk that
\* is directly followed by a hunk header has its unpaired removal tuple
\* (content, null, its old line number, null) in the output.
C19_RemovalBeforeHeaderReported ==
    xpc = "done" =>
        \A i \in 1..(Len(lines) - 1) :
            (InValidHunk(i) /\ IsMinusLine(lines[i]) /\ IsHunkHeader(lines[i + 1])) =>
                Returns(RemovalOf(i))

\* C20: when the extractor has returned, every '+' line and every '-' line of
\* a hunk whose header is not valid is reported by a tuple that carries its
\* content with a null line number on its side, and the lines after the next
\* valid header are numbered from the start values of that header.
C20_InvalidHeaderKeepsLines ==
    xpc = "done" =>
        \A i \in 1..Len(lines) :
            /\ (InInvalidHunk(i) /\ IsPlusLine(lines[i])) =>
                   \E k \in DOMAIN ext.changes :
                       /\ ext.changes[k][2] = Some(Tail(lines[i]))
                       /\ IsNone(ext.changes[k][4])
            /\ (InInvalidHunk(i) /\ IsMinusLine(lines[i])) =>
                   \E k \in DOMAIN ext.changes :
                       /\ ext.changes[k][1] = Some(Tail(lines[i]))
                       /\ IsNone(ext.changes[k][3])
            /\ (InValidHunk(i) /\ IsPlusLine(lines[i])) =>
                   \E k \in DOMAIN ext.changes :
                       /\ ext.changes[k][2] = Some(Tail(lines[i]))
                       /\ ext.changes[k][4] = Some(NewNumberAt(i))


\* ------------------------------------------------------------------------
\* Properties of the diff generator and the extractor taken together.
\* ------------------------------------------------------------------------

\* the changed-lines tuples of the returned result
ChangedTuples == Val(comparisons[1].changed_lines)

\* C21: on the diff branch every changed-lines tuple with an old_line has an
\* old line number and every tuple with a new_line has a new line number:
\* the extractor accepts every hunk header unified_diff emits.
C21_GeneratedHeadersAccepted ==
    DiffComputed =>
        \A k \in DOMAIN ChangedTuples :
            /\ ~IsNone(ChangedTuples[k][1]) => ~IsNone(ChangedTuples[k][3])
            /\ ~IsNone(ChangedTuples[k][2]) => ~IsNone(ChangedTuples[k][4])


\* the body of the hunk of line i, up to line i, has only ' ', '-' and '+' lines
PlainBodyUpTo(i) ==
    \A j \in (LastHeaderBefore(i) + 1)..i :
        \/ IsMinusLine(lines[j])
        \/ IsPlusLine(lines[j])
        \/ StartsWith(lines[j], <<32>>)

\* the step appends one tuple
AppendsOne == Len(ext'.changes) = Len(ext.changes) + 1

\* the old side of the appended tuple is the last '-' line of the hunk before
\* line i, with its number counted from the header of that hunk
OldSideFromHunk(i) ==
    /\ LastMinusUpTo(i) > LastHeaderBefore(i + 1)
    /\ Appended[1] = Some(Tail(lines[LastMinusUpTo(i)]))
    /\ Appended[3] = Some(OldNumberAt(LastMinusUpTo(i)))

\* C22: in a hunk with a valid header whose body has only ' ', '-' and '+'
\* lines, every tuple appended carries as old number the old start of the
\* header plus the context and '-' lines of the hunk before its '-' line, and
\* as new number the new start of the header plus the context and '+' lines
\* of the hunk before its '+' line, whatever the hunks before were.
C22_HeaderAuthoritative ==
    [][/\ (ExPlus /\ InValidHunk(idx + 1) /\ PlainBodyUpTo(idx + 1)) =>
              /\ AppendsOne
              /\ Appended[2] = Some(Tail(lines[idx + 1]))
              /\ Appended[4] = Some(NewNumberAt(idx + 1))
              /\ ~IsNone(Appended[3]) => OldSideFromHunk(idx)
       /\ ((ExContext \/ ExReturn) /\ AppendsOne /\ InValidHunk(idx) /\ PlainBodyUpTo(idx)) =>
              /\ IsDeletion(Appended)
              /\ OldSideFromHunk(idx)
      ]_vars

\* C22 witness: the extractor has returned for a valid header, a context
\* line, a '-' line and a '+' line, with a pair whose numbers are the start
\* values of the header plus one
C22_Witness ==
    /\ xpc = "done"
    /\ Len(lines) = 4
    /\ ValidHeaderLine(lines[1])
    /\ StartsWith(lines[2], <<32>>)
    /\ IsMinusLine(lines[3])
    /\ IsPlusLine(lines[4])
    /\ ext.changes = <<<<Some(Tail(lines[3])), Some(Tail(lines[4])),
                         Some(Val(HeaderSearch(lines[1])).old_start + 1),
                         Some(Val(HeaderSearch(lines[1])).new_start + 1)>>>>

\* C23: in a valid hunk a context line or the end of input that directly
\* follows a '-' line appends exactly the unpaired removal of that line
\* (content, null, its old line number, null) and leaves no removal pending;
\* a '+' line is paired only with a '-' line that no context line or hunk
\* header separates from it.
C23_FlushedOnce ==
    [][/\ ((ExContext \/ ExReturn) /\ idx >= 1 /\ InValidHunk(idx) /\ IsMinusLine(lines[idx])) =>
              /\ ext'.changes = Append(ext.changes, RemovalOf(idx))
              /\ ~HasPending(ext')
       /\ (ExPlus /\ AppendsOne /\ IsPaired(Appended)) =>
              \A q \in (LastMinusUpTo(idx) + 1)..idx :
                  LineKind(lines[q]) \in {"blank", "fileheader"}
      ]_vars

\* C23 witness: the extractor has returned for a valid header, a '-' line, a
\* context line and a '+' line: one unpaired removal, one unpaired addition
C23_Witness ==
    /\ xpc = "done"
    /\ Len(lines) = 4
    /\ ValidHeaderLine(lines[1])
    /\ IsMinusLine(lines[2])
    /\ LineKind(lines[3]) = "context"
    /\ IsPlusLine(lines[4])
    /\ ext.changes = <<RemovalOf(2), <<None, Some(Tail(lines[4])), None, Some(NewNumberAt(4))>> >>


\* the line occurs in the sequence of lines
OccursIn(l, ls) == \E i \in DOMAIN ls : ls[i] = l

\* C24: on the diff branch of two text files (not compared as JSON) every
\* line of the modified file that starts with '+' and is not a line of the
\* original is the new_line of a tuple, and every line of the original that
\* starts with '-' and is not a line of the modified file is the old_line of
\* a tuple.
C24_SignLeadingLinesReported ==
    (DiffComputed /\ ~JsonGateHolds) =>
        /\ \A i \in DOMAIN ModifiedLines :
               (StartsWith(ModifiedLines[i], <<43>>) /\ ~OccursIn(ModifiedLines[i], OriginalLines)) =>
                   \E k \in DOMAIN ChangedTuples : ChangedTuples[k][2] = Some(ModifiedLines[i])
        /\ \A i \in DOMAIN OriginalLines :
               (StartsWith(OriginalLines[i], <<45>>) /\ ~OccursIn(OriginalLines[i], ModifiedLines)) =>
                   \E k \in DOMAIN ChangedTuples : ChangedTuples[k][1] = Some(OriginalLines[i])


\* before position e a removal is pending: the last line before e that is
\* neither blank nor a file header is a '-' line of a hunk with a valid header
PendingBefore(e) ==
    /\ LastMinusUpTo(e - 1) > 0
    /\ InValidHunk(LastMinusUpTo(e - 1))
    /\ \A q \in (LastMinusUpTo(e - 1) + 1)..(e - 1) :
           LineKind(lines[q]) \in {"blank", "fileheader"}

\* the positions of the diff at which a tuple is due: every '+' line, and
\* every context line or end of input (position Len + 1) that ends a run of
\* '-' lines
EmitPositions ==
    {e \in 1..(Len(lines) + 1) :
        \/ e <= Len(lines) /\ IsPlusLine(lines[e])
        \/ (e = Len(lines) + 1 \/ LineKind(lines[e]) = "context") /\ PendingBefore(e)}

\* the k-th of these positions in diff order
EmitAt(k) ==
    CHOOSE e \in EmitPositions : Cardinality({o \in EmitPositions : o < e}) = k - 1

\* the tuple due at position e
SourcedAt(t, e) ==
    IF e <= Len(lines) /\ IsPlusLine(lines[e])
    THEN t[2] = Some(Tail(lines[e]))
    ELSE t[1] = Some(Tail(lines[LastMinusUpTo(e - 1)])) /\ IsNone(t[2])

\* no hunk header at the positions d < q <= e
SameHunk(d, e) == \A q \in (d + 1)..e : q <= Len(lines) => ~IsHunkHeader(lines[q])

\* a and b are not both numbers with a > b
NotDecreasing(a, b) == (~IsNone(a) /\ ~IsNone(b)) => Val(a) <= Val(b)

\* C25: when the extractor has returned, its tuples are those due at the
\* positions of the diff in diff order, and of two tuples with no hunk header
\* between their positions the later one has no smaller old line number and
\* no smaller new line number.
C25_OrderAndMonotonicity ==
    xpc = "done" =>
        /\ Len(ext.changes) = Cardinality(EmitPositions)
        /\ \A k \in DOMAIN ext.changes : SourcedAt(ext.changes[k], EmitAt(k))
        /\ \A j, k \in DOMAIN ext.changes :
               (j < k /\ SameHunk(EmitAt(j), EmitAt(k))) =>
                   /\ NotDecreasing(ext.changes[j][3], ext.changes[k][3])
                   /\ NotDecreasing(ext.changes[j][4], ext.changes[k][4])

\* C25 witness: the extractor has returned two tuples of one hunk, the
\* second with a larger old line number than the first
C25_Witness ==
    /\ xpc = "done"
    /\ Len(ext.changes) = 2
    /\ SameHunk(EmitAt(1), EmitAt(2))
    /\ ~IsNone(ext.changes[1][3])
    /\ ~IsNone(ext.changes[2][3])
    /\ Val(ext.changes[1][3]) < Val(ext.changes[2][3])


\* ------------------------------------------------------------------------
\* The classification of the tuples into parameter changes (C26, C27)
\* ------------------------------------------------------------------------

\* the decision table over the extraction results o and n of the old and the
\* new line of a tuple (None: the line is null or does not match)
DecisionTable(o, n) ==
    CASE ~IsNone(o) /\ ~IsNone(n) ->
             IF Val(o).name = Val(n).name /\ Val(o).value # Val(n).value
             THEN <<<<Val(o).name, Val(o).value, Val(n).value>>>>
             ELSE <<>>
      [] IsNone(o) /\ ~IsNone(n) -> <<<<Val(n).name, <<>>, Val(n).value>>>>
      [] ~IsNone(o) /\ IsNone(n) -> <<<<Val(o).name, Val(o).value, <<>>>>>>
      [] IsNone(o) /\ IsNone(n) -> <<>>

RECURSIVE GenericTable(_, _)
\* the triples of the decision table for the tuples ts[k], ts[k + 1], ...,
\* each side extracted as the generic mode extracts it
GenericTable(ts, k) ==
    IF k > Len(ts) THEN <<>>
    ELSE DecisionTable(GenericSide(ts[k][1]), GenericSide(ts[k][2])) \o GenericTable(ts, k + 1)

RECURSIVE JsonTable(_, _)
\* the same with each side matched against the key/value pattern
JsonTable(ts, k) ==
    IF k > Len(ts) THEN <<>>
    ELSE DecisionTable(JsonSide(ts[k][1]), JsonSide(ts[k][2])) \o JsonTable(ts, k + 1)

\* C26: in generic mode the list returned holds, tuple by tuple, one triple
\* (name, oldValue, newValue) if both sides yield the same name with
\* different values, (newName, "", newValue) if only the new side yields a
\* name (paired tuple or not), (oldName, oldValue, "") if only the old side
\* does, and nothing if neither does, if the names differ or if names and
\* values are equal.
C26_GenericDecisionTable ==
    (ppc = "done" /\ ~arg_is_json) => param_changes = GenericTable(arg_changed_lines, 1)

\* C26 witness: generic mode has returned for a paired tuple whose new side
\* alone yields a name, followed by a paired tuple with two different names:
\* one addition triple
C26_Witness ==
    /\ ppc = "done"
    /\ ~arg_is_json
    /\ Len(arg_changed_lines) = 2
    /\ IsPaired(arg_changed_lines[1])
    /\ IsNone(GenericSide(arg_changed_lines[1][1]))
    /\ ~IsNone(GenericSide(arg_changed_lines[1][2]))
    /\ ~IsNone(GenericSide(arg_changed_lines[2][1]))
    /\ ~IsNone(GenericSide(arg_changed_lines[2][2]))
    /\ Val(GenericSide(arg_changed_lines[2][1])).name # Val(GenericSide(arg_changed_lines[2][2])).name
    /\ param_changes = <<<<Val(GenericSide(arg_changed_lines[1][2])).name, <<>>,
                           Val(GenericSide(arg_changed_lines[1][2])).value>>>>

\* C27: in JSON mode the list returned holds, tuple by tuple, one
\* modification triple for the same key with different values on both sides,
\* one addition triple with oldValue "" for a key on the new side only, one
\* removal triple with newValue "" for a key on the old side only, and
\* nothing for a side that does not match or for two different keys.
C27_JsonClassification ==
    (ppc = "done" /\ arg_is_json) => param_changes = JsonTable(arg_changed_lines, 1)

\* C27 witness: JSON mode has returned for a paired tuple with two different
\* keys followed by a tuple with a key on the old side only: one removal
C27_Witness ==
    /\ ppc = "done"
    /\ arg_is_json
    /\ Len(arg_changed_lines) = 2
    /\ ~IsNone(JsonSide(arg_changed_lines[1][1]))
    /\ ~IsNone(JsonSide(arg_changed_lines[1][2]))
    /\ Val(JsonSide(arg_changed_lines[1][1])).name # Val(JsonSide(arg_changed_lines[1][2])).name
    /\ ~IsNone(JsonSide(arg_changed_lines[2][1]))
    /\ IsNone(JsonSide(arg_changed_lines[2][2]))
    /\ param_changes = <<<<Val(JsonSide(arg_changed_lines[2][1])).name,
                           Val(JsonSide(arg_changed_lines[2][1])).value, <<>>>>>>


\* ------------------------------------------------------------------------
\* Two JSON files with the same value (C28)
\* ------------------------------------------------------------------------

\* the value the dict d (a sequence of <<key, value>>) holds under key k
ValueUnder(d, k) == (CHOOSE i \in DOMAIN d : d[i][1] = k)

RECURSIVE JsonEqual(_, _)
\* two parsed JSON values are the same value: objects whatever the order of
\* their keys, arrays element by element
JsonEqual(a, b) ==
    IF a[1] # b[1] THEN FALSE
    ELSE IF a[1] = "obj"
         THEN /\ {a[2][i][1] : i \in DOMAIN a[2]} = {b[2][i][1] : i \in DOMAIN b[2]}
              /\ \A i \in DOMAIN a[2] :
                     JsonEqual(a[2][i][2], b[2][ValueUnder(b[2], a[2][i][1])][2])
    ELSE IF a[1] = "arr"
         THEN /\ Len(a[2]) = Len(b[2])
              /\ \A i \in DOMAIN a[2] : JsonEqual(a[2][i], b[2][i])
    ELSE a[2] = b[2]

\* both files parse as JSON, to the same value
SameJsonValue ==
    /\ ParsesAsJson(DecodeText(Val(original_file)))
    /\ ParsesAsJson(DecodeText(Val(modded_file)))
    /\ JsonEqual(JsonLoads(DecodeText(Val(original_file))).val,
                 JsonLoads(DecodeText(Val(modded_file))).val)

\* C28: for two files under a JSON-like name whose bytes differ and whose
\* contents parse to the same JSON value, the diff branch returns exactly one
\* 'modified-text' result with the empty string as diff, the empty list as
\* changed_lines, null param_changes and diff_truncated false.
C28_SameJsonValue ==
    (DiffComputed /\ Lower(Suffix(original_name)) \in JsonLikeSuffixes /\ SameJsonValue) =>
        comparisons = <<FileDiff(original_name, "modified-text", Some(<<>>), None, FALSE,
                                 Some(<<>>))>>

\* C28 witness: the call has returned for two files of different bytes with
\* the same JSON value under a JSON-like name
C28_Witness ==
    /\ DiffComputed
    /\ Lower(Suffix(original_name)) \in JsonLikeSuffixes
    /\ SameJsonValue
    /\ Len(comparisons) = 1
    /\ comparisons[1].diff = Some(<<>>)


\* ------------------------------------------------------------------------
\* Delivery of the result of a comparison to the UI thread (C29, C30)
\* ------------------------------------------------------------------------

\* the worker of run k has ended and no callback of run k is still scheduled
Settled(k) ==
    /\ wpc[k] = "ended"
    /\ \A i \in DOMAIN after_queue : after_queue[i][1] # k

\* C29: once the worker of a run has ended and its scheduled callback has
\* run, exactly one of on_complete and on_error has been invoked for the run,
\* once, in whatever order the worker and the UI thread took their steps.
C29_OneCallbackPerRun ==
    \A k \in Runs : Settled(k) => completed[k] + errored[k] = 1

\* C30: when two comparisons were started and both have delivered their
\* result through on_complete, the diffs and paths stored are those of the
\* comparison started last, in whatever order the workers finished.
C30_LastStartedWins ==
    (started = MaxRuns /\ \A k \in Runs : Settled(k) /\ completed[k] = 1) =>
        storage = started

====
